---- MODULE Spec2Model ----
(***************************************************************************)
(* Model of the dispatch pipeline of the trading engine:                   *)
(*   UltraHighFrequencyEngine  (src/ultraHighFrequencyEngine.ts)           *)
(*   StrategyRegistry          (src/strategyregistry.ts)                   *)
(*   NeuralNetworkPredictor    (src/neuralNetwork.ts)                      *)
(*   AIDecisionEngine          (src/unnamed/part_000)                      *)
(* Every setInterval callback is an action; every await inside a callback  *)
(* splits it into the step before and the step after the await.            *)
(***************************************************************************)
EXTENDS Integers, Sequences, FiniteSets, TLC

(***************************************************************************)
(* Bounds.  The source's sizes are scaled down; the source value is given. *)
(***************************************************************************)
\* os.cpus().length
numWorkers == 1
\* loopsPerCore, 10 in the source
loopsPerCore == 1
\* maxQueueSize, 1000000 in the source
maxQueueSize == 2
\* batchSize, 1000 in the source
batchSize == 2
\* number of distinct opportunities ever created
MaxOpps == 3
\* number of effective start() calls
MaxStarts == 2
\* longest list a strategy's analyze hook returns
MaxAnalyze == 2
\* analyze calls awaited at the same time
MaxPendingGen == 1
\* monitor ticks that find a leveraged opportunity in the queue
MaxScans == 1
\* trainingDataSize the retraining trigger waits for, 5000 in the source
trainThreshold == 2
\* least trainingData length for trainModel, and the auto-train step, 1000 in the source
trainStep == 1
\* outcomes recorded by direct callers of the registry
MaxOutcomes == 3
\* largest limit asked of getTopPerformingStrategies, 10 by default in the source
MaxLimit == 2
\* largest number of RPC endpoints configured for the chain
MaxProviders == 3
\* getProviderWithFailover calls that may be in progress at once
MaxCalls == 2
\* length of the decision engine's rolling window, 100 in the source
recentWindow == 3
\* updateStrategyPerformance calls on the decision engine
MaxUpdates == 4
\* opportunities kept in the builder's list
MaxStored == 3
\* trades of a type from which its measured success rate is its
\* reliability, 10 in the source
minReliabilityTrades == 2
\* clock ticks in the second of updateStrategiesPerSecond, 1000 ms in the
\* source
oneSecond == 2
\* Date.now() when the engine is constructed
bootTime == 2
\* clock ticks after construction
MaxElapsed == 3

(***************************************************************************)
(* Program constants.  Probabilities are in percent.                       *)
(***************************************************************************)
\* config.ai.confidenceThreshold, default 0.75
confidenceThreshold == 75
\* the monitor's literal 0.40
flashLoanThreshold == 40
\* NeuralNetworkPredictor.maxTrainingData
maxTrainingData == 100000
\* config.trading.minProfitThresholdUSD, default 1.0
minProfitThresholdUSD == 1
\* the fallback of FlashLoanEngine.getETHPrice
defaultETHPrice == 2000
\* the age in ms at which scanForOpportunities forgets an opportunity
maxOpportunityAge == 10000

OppIds == 1..MaxOpps
StrategyTypes == {"FLASH_LOAN", "ARBITRAGE", "MEV"}
\* values neuralNetworkPredictor.predictProfitProbability may return
Estimates == {30, 50, 80}

\* Opportunity.type: fixed at creation, never mutated
OppType(o) ==
  CASE o % 3 = 1 -> "FLASH_LOAN"
    [] o % 3 = 2 -> "ARBITRAGE"
    [] OTHER     -> "MEV"

\* Opportunity.estimatedProfitUSD
OppProfitUSD(o) == o

\* Opportunity.estimatedProfit, the amount in ETH: negative, zero or positive
OppEstimatedProfit(o) == o - 2

\* the wall-clock duration of the execution of opportunity o, in ms
OppExecutionTime(o) == o

(***************************************************************************)
(* Numbers.  A JavaScript number is a pair <<n, d>>: the fraction n/d in    *)
(* lowest terms when d > 0, and with d = 0 the values NaN = <<0, 0>>,       *)
(* Infinity = <<1, 0>> and -Infinity = <<-1, 0>>.  The arithmetic is exact: *)
(* the rounding of doubles and the sign of zero are not modelled.           *)
(***************************************************************************)
NaN == <<0, 0>>
Infinity == <<1, 0>>
NegInfinity == <<-1, 0>>

Abs(n) == IF n < 0 THEN -n ELSE n
Sign(n) == IF n > 0 THEN 1 ELSE IF n < 0 THEN -1 ELSE 0

RECURSIVE GCD(_, _)
GCD(a, b) == IF b = 0 THEN a ELSE GCD(b, a % b)

\* the number n/d, d of any sign, in the representation above
Num(n, d) ==
  IF d = 0 THEN <<Sign(n), 0>>
  ELSE LET g == GCD(Abs(n), Abs(d))
       IN  <<(Sign(d) * n) \div g, Abs(d) \div g>>

Int2Num(n) == <<n, 1>>
IsNaN(x) == x = NaN
IsFinite(x) == x[2] > 0

\* x + y
Plus(x, y) ==
  IF x[2] = 0 /\ y[2] = 0 THEN (IF x = y THEN x ELSE NaN)
  ELSE Num(x[1] * y[2] + y[1] * x[2], x[2] * y[2])

\* x * y
Times(x, y) == Num(x[1] * y[1], x[2] * y[2])

\* -x
Neg(x) == <<-x[1], x[2]>>

\* x - y
Minus(x, y) == Plus(x, Neg(y))

\* 1 / x
Recip(x) ==
  IF x[1] > 0 THEN <<x[2], x[1]>>
  ELSE IF x[1] < 0 THEN <<-x[2], -x[1]>>
  ELSE IF x[2] > 0 THEN Infinity ELSE NaN

\* x / y
Div(x, y) == Times(x, Recip(y))

\* x < y: false when either is NaN
Less(x, y) ==
  IF IsNaN(x) \/ IsNaN(y) THEN FALSE
  ELSE IF x[2] = 0 /\ y[2] = 0 THEN x = NegInfinity /\ y = Infinity
  ELSE x[1] * y[2] < y[1] * x[2]

\* x <= y
LessEq(x, y) == Less(x, y) \/ (~IsNaN(x) /\ x = y)

\* Math.min and Math.max: NaN when either argument is NaN
MathMin(x, y) ==
  IF IsNaN(x) \/ IsNaN(y) THEN NaN ELSE IF Less(y, x) THEN y ELSE x

MathMax(x, y) ==
  IF IsNaN(x) \/ IsNaN(y) THEN NaN ELSE IF Less(x, y) THEN y ELSE x

\* x || y for numbers: y when x is 0 or NaN
OrElse(x, y) == IF x = <<0, 1>> \/ IsNaN(x) THEN y ELSE x

\* a defined number within [0, 1]
InUnit(x) == IsFinite(x) /\ LessEq(<<0, 1>>, x) /\ LessEq(x, <<1, 1>>)

VARIABLES
  isRunning,          \* UltraHighFrequencyEngine.isRunning
  tradeCount,         \* UltraHighFrequencyEngine.tradeCount
  opportunityQueue,   \* UltraHighFrequencyEngine.opportunityQueue
  executionLoops,     \* UltraHighFrequencyEngine.executionLoops (timer handles)
  timers,             \* the interval timers that are still scheduled
  generation,         \* number of start() calls that started the engine
  batches,            \* batches awaiting Promise.allSettled in a cycle-runner
  genPending,         \* generators awaiting strategy.analyze()
  scans,              \* monitor callbacks inside their for-loop
  strategies,         \* StrategyRegistry.strategies
  activeStrategies,   \* StrategyRegistry.activeStrategies
  strategyPerformance,\* AIDecisionEngine.strategyPerformance (no entry: totalTrades = 0)
  trainingDataSize,   \* NeuralNetworkPredictor.trainingData.length
  isTraining,         \* NeuralNetworkPredictor.isTraining
  flashAvailable,     \* config.trading.enableFlashLoans and realFlashLoanExecutor.isAvailable()
  created,            \* opportunities created so far
  candidate,          \* the opportunity a caller hands to analyzeOpportunity
  decision,           \* the last AIDecision of AIDecisionEngine.analyzeOpportunity
  opportunities,      \* FlashLoanEngine.opportunities
  flashLoanAmountETH, \* config.trading.flashLoanAmountETH
  clock,              \* Date.now()
  strategiesPerSecond,\* UltraHighFrequencyEngine.strategiesPerSecond
  lastSecondTimestamp,\* UltraHighFrequencyEngine.lastSecondTimestamp
  providers,          \* BlockchainProvider.providers.get(chainId).length
  currentProviderIndex, \* BlockchainProvider.currentProviderIndex.get(chainId)
  failovers,          \* the getProviderWithFailover calls and their locals
  hist,               \* history of each opportunity
  lastOp              \* the operation of the last step

vars == <<isRunning, tradeCount, opportunityQueue, executionLoops, timers,
          generation, batches, genPending, scans, strategies,
          activeStrategies, strategyPerformance, trainingDataSize,
          isTraining, flashAvailable, created, candidate, decision,
          opportunities, flashLoanAmountETH, clock, strategiesPerSecond,
          lastSecondTimestamp, providers, currentProviderIndex, failovers,
          hist, lastOp>>

\* the variables of BlockchainProvider for one chain
providerVars == <<providers, currentProviderIndex, failovers>>
\* the variables the dispatcher never writes
componentVars == <<candidate, decision, opportunities, flashLoanAmountETH,
                   providerVars>>
\* the clock and the fields of the decisions-per-second metric
clockVars == <<clock, strategiesPerSecond, lastSecondTimestamp>>

(***************************************************************************)
(* StrategyRegistry                                                        *)
(***************************************************************************)
\* the registry after initializeStrategies, scaled to three records in
\* registration order; createStrategy sets enabled and zeroes the counters.
\* The priorities of a type fall with the loop index, and those of FLASH_LOAN
\* are 65 - (i % 40), which start again at the top at i = 40: the two
\* FLASH_LOAN records stand for those of i = 39 and i = 40
InitialStrategies ==
  LET mk(t, p) == [type |-> t, priority |-> p, enabled |-> TRUE,
                   successRate |-> <<0, 1>>, totalTrades |-> 0,
                   profitabletrades |-> 0, totalProfitUSD |-> 0,
                   averageExecutionTime |-> <<0, 1>>]
  IN  <<mk("ARBITRAGE", 2), mk("FLASH_LOAN", 1), mk("FLASH_LOAN", 2)>>

StrategyIds == 1..Len(InitialStrategies)

\* Array.from(values()).filter(s => s.type === type): ids in registration order
RECURSIVE FilterByType(_, _, _)
FilterByType(reg, type, i) ==
  IF i > Len(reg) THEN <<>>
  ELSE (IF reg[i].type = type THEN <<i>> ELSE <<>>) \o FilterByType(reg, type, i + 1)

getStrategiesByType(reg, type) == FilterByType(reg, type, 1)

\* insert id into a list sorted by priority descending, after equal priorities
RECURSIVE InsertByPriority(_, _, _)
InsertByPriority(reg, sorted, id) ==
  IF sorted = <<>> THEN <<id>>
  ELSE IF reg[Head(sorted)].priority >= reg[id].priority
       THEN <<Head(sorted)>> \o InsertByPriority(reg, Tail(sorted), id)
       ELSE <<id>> \o sorted

\* strategies.sort((a, b) => b.priority - a.priority): a stable sort
RECURSIVE SortByPriority(_, _)
SortByPriority(reg, ids) ==
  IF ids = <<>> THEN <<>>
  ELSE InsertByPriority(reg, SortByPriority(reg, SubSeq(ids, 1, Len(ids) - 1)),
                        ids[Len(ids)])

\* the strategy a selection among the enabled ones would pick: of the
\* enabled strategies of a type, those of highest priority and, of these, the
\* one registered first (recorded in hist when a strategy is selected)
EnabledTop(reg, type) ==
  LET en == {i \in DOMAIN reg : reg[i].type = type /\ reg[i].enabled}
      top == {i \in en : \A j \in en : reg[j].priority <= reg[i].priority}
  IN  {i \in top : \A j \in top : i <= j}

\* the sum of totalTrades over the registry's strategies of a type
RECURSIVE SumTrades(_, _, _)
SumTrades(reg, type, i) ==
  IF i > Len(reg) THEN 0
  ELSE (IF reg[i].type = type THEN reg[i].totalTrades ELSE 0)
         + SumTrades(reg, type, i + 1)

\* successRate * totalProfitUSD, the score getTopPerformingStrategies sorts by
Score(reg, id) == Times(reg[id].successRate, Int2Num(reg[id].totalProfitUSD))

\* Array.from(values()).filter(s => s.totalTrades > 0): ids in registration order
RECURSIVE FilterTraded(_, _)
FilterTraded(reg, i) ==
  IF i > Len(reg) THEN <<>>
  ELSE (IF reg[i].totalTrades > 0 THEN <<i>> ELSE <<>>) \o FilterTraded(reg, i + 1)

\* insert id into a list sorted by score descending, after equal scores
RECURSIVE InsertByScore(_, _, _)
InsertByScore(reg, sorted, id) ==
  IF sorted = <<>> THEN <<id>>
  ELSE IF LessEq(Score(reg, id), Score(reg, Head(sorted)))
       THEN <<Head(sorted)>> \o InsertByScore(reg, Tail(sorted), id)
       ELSE <<id>> \o sorted

\* sort((a, b) => scoreB - scoreA): a stable sort
RECURSIVE SortByScore(_, _)
SortByScore(reg, ids) ==
  IF ids = <<>> THEN <<>>
  ELSE InsertByScore(reg, SortByScore(reg, SubSeq(ids, 1, Len(ids) - 1)),
                     ids[Len(ids)])

\* StrategyRegistry.getTopPerformingStrategies, for a limit of 0 or more
getTopPerformingStrategies(reg, limit) ==
  LET sorted == SortByScore(reg, FilterTraded(reg, 1))
  IN  SubSeq(sorted, 1, IF limit < Len(sorted) THEN limit ELSE Len(sorted))

\* the identifiers createStrategy may give the records: uuidv4() returns
\* distinct values in no order, here ranked 1..Len(InitialStrategies)
Uuids ==
  {u \in [StrategyIds -> StrategyIds] : \A i, j \in StrategyIds : i # j => u[i] # u[j]}

\* a TradeResult: success, profitUSD and executionTime (ms)
TradeResult(success, profitUSD, executionTime) ==
  [success |-> success, profitUSD |-> profitUSD,
   executionTime |-> executionTime]

\* an update whose running mean weighs the old average by the new count
updateStrategyPerformanceWeighsNew(reg, id, result) ==
  IF id \notin DOMAIN reg THEN reg
  ELSE LET s == reg[id]
           total == s.totalTrades + 1
           profitable == IF result.success THEN s.profitabletrades + 1
                         ELSE s.profitabletrades
       IN  [reg EXCEPT
             ![id].totalTrades = total,
             ![id].profitabletrades = profitable,
             ![id].totalProfitUSD =
               IF result.success THEN @ + result.profitUSD ELSE @,
             ![id].successRate = Num(profitable, total),
             ![id].averageExecutionTime =
               Num(@[1] * total + result.executionTime * @[2],
                   @[2] * total)]

\* the trades of every record of the registry
RECURSIVE TradesFrom(_, _)
TradesFrom(reg, i) ==
  IF i > Len(reg) THEN 0 ELSE reg[i].totalTrades + TradesFrom(reg, i + 1)

\* an update that rates a strategy against the trades of the whole registry
updateStrategyPerformanceShared(reg, id, result) ==
  IF id \notin DOMAIN reg THEN reg
  ELSE LET s == reg[id]
           total == s.totalTrades + 1
           profitable == IF result.success THEN s.profitabletrades + 1
                         ELSE s.profitabletrades
       IN  [reg EXCEPT
             ![id].totalTrades = total,
             ![id].profitabletrades = profitable,
             ![id].totalProfitUSD =
               IF result.success THEN @ + result.profitUSD ELSE @,
             ![id].successRate =
               Num(profitable, TradesFrom(reg, 1) + 1),
             ![id].averageExecutionTime =
               Num(@[1] * (total - 1) + result.executionTime * @[2],
                   @[2] * total)]

\* an update that books the outcome of an unknown id on the first record
updateStrategyPerformanceOnFirst(reg, id, result) ==
  LET known == IF id \in DOMAIN reg THEN id ELSE 1
      s == reg[known]
      total == s.totalTrades + 1
      profitable == IF result.success THEN s.profitabletrades + 1
                    ELSE s.profitabletrades
  IN  [reg EXCEPT
        ![known].totalTrades = total,
        ![known].profitabletrades = profitable,
        ![known].totalProfitUSD =
          IF result.success THEN @ + result.profitUSD ELSE @,
        ![known].successRate = Num(profitable, total),
        ![known].averageExecutionTime =
          Num(@[1] * (total - 1) + result.executionTime * @[2],
              @[2] * total)]

\* StrategyRegistry.updateStrategyPerformance, the registry after the call;
\* with the old average n/d, (n/d * (total - 1) + time) / total is
\* (n * (total - 1) + time * d) / (d * total)
updateStrategyPerformance(reg, id, result) ==
  IF id \notin DOMAIN reg THEN reg
  ELSE LET s == reg[id]
           total == s.totalTrades + 1
           profitable == IF result.success THEN s.profitabletrades + 1
                         ELSE s.profitabletrades
       IN  [reg EXCEPT
             ![id].totalTrades = total,
             ![id].profitabletrades = profitable,
             ![id].totalProfitUSD =
               IF result.success THEN @ + result.profitUSD ELSE @,
             ![id].successRate = Num(profitable, total),
             ![id].averageExecutionTime =
               Num(@[1] * (total - 1) + result.executionTime * @[2],
                   @[2] * total)]

(***************************************************************************)
(* Timers                                                                  *)
(***************************************************************************)
Timer(kind, gen, idx) == [kind |-> kind, gen |-> gen, idx |-> idx]

totalLoops == numWorkers * loopsPerCore

\* the cycle-runner timers that are still scheduled
LiveLoops == {t \in timers : t.kind = "exec"}

\* the opportunities of the batches in flight
InFlight == UNION {{b.items[i].opp : i \in DOMAIN b.items} : b \in batches}

\* a splice that takes everything
MinTakesAll(a, b) == b

Min(a, b) == IF a < b THEN a ELSE b

(***************************************************************************)
(* The state after the singletons are constructed                          *)
(***************************************************************************)
\* the record updateStrategyPerformance starts from when the map has no
\* entry for a type
NoPerformance ==
  [successRate |-> <<0, 1>>, avgProfit |-> <<0, 1>>, totalTrades |-> 0,
   recentPerformance |-> <<>>]

\* no opportunity is handed to analyzeOpportunity
NoCandidate == [type |-> "NONE"]

\* no opportunity has been analysed yet
NoDecision == [made |-> FALSE]

\* the outcomes recorded for a strategy: their number, the successful ones,
\* the profit of the successful ones and the sum of the durations
NoOutcomes == [n |-> 0, wins |-> 0, profit |-> 0, time |-> 0]

Tally(t, result) ==
  [n |-> t.n + 1,
   wins |-> t.wins + (IF result.success THEN 1 ELSE 0),
   profit |-> t.profit + (IF result.success THEN result.profitUSD ELSE 0),
   time |-> t.time + result.executionTime]

FailoverCalls == 1..MaxCalls
\* no provider returned
NoProvider == -1

\* a getProviderWithFailover call that has not been made
IdleCall ==
  [pc |-> "idle", attempts |-> 0, currentIndex |-> 0, probed |-> <<>>,
   provider |-> NoProvider]

\* initializeProviders: the chain starts at its first provider
InitChain ==
  /\ currentProviderIndex = 0
  /\ failovers = [c \in FailoverCalls |-> IdleCall]

InitSingletons ==
  /\ InitChain
  /\ isRunning = FALSE
  /\ tradeCount = 0
  /\ opportunityQueue = <<>>
  /\ executionLoops = {}
  /\ timers = {}
  /\ generation = 0
  /\ batches = {}
  /\ genPending = {}
  /\ scans = {}
  /\ strategies = InitialStrategies
  /\ activeStrategies = {}
  /\ strategyPerformance = [t \in StrategyTypes |-> NoPerformance]
  /\ trainingDataSize = 0
  /\ isTraining = FALSE
  /\ flashAvailable \in BOOLEAN
  /\ created = {}
  /\ decision = NoDecision
  /\ opportunities = <<>>
  /\ clock = bootTime
  /\ strategiesPerSecond = 0
  /\ lastSecondTimestamp = 0
  /\ hist = [stratExec |-> [o \in OppIds |-> 0],
             flashExec |-> [o \in OppIds |-> 0],
             recorded  |-> [o \in OppIds |-> 0],
             counted   |-> [o \in OppIds |-> 0],
             lowExec   |-> {},
             atStop    |-> {},
             scanned   |-> 0,
             deqStopped |-> FALSE,
             selDisabled |-> {},
             selNotTop |-> {},
             outcomes |-> [id \in StrategyIds |-> NoOutcomes],
             dropped |-> 0,
             deqExpired |-> {},
             sinceReset |-> 0,
             oracleThrew |-> {},
             execThrew |-> {},
             fits |-> 0,
             emitted |-> [o \in OppIds |-> 0],
             handed |-> {},
             perfLog |-> [t \in StrategyTypes |-> <<>>]]
  /\ lastOp = "init"

\* the singletons under the default configuration; the dispatcher hands
\* no opportunity to the decision engine
Init ==
  /\ InitSingletons
  /\ providers = MaxProviders
  /\ flashLoanAmountETH = Int2Num(100)
  /\ candidate = NoCandidate

\* the variables of the registry, the decision engine and the predictor
registryVars == <<strategies, activeStrategies>>
predictorVars == <<trainingDataSize, isTraining, flashAvailable>>
\* the variables of the engine's periodic tasks
taskVars == <<executionLoops, timers, generation>>
\* the variables of the dispatcher
dispatchVars == <<isRunning, tradeCount, opportunityQueue, taskVars, batches,
                  genPending, scans, created, clockVars, providerVars>>

(***************************************************************************)
(* UltraHighFrequencyEngine.start                                          *)
(***************************************************************************)
\* startExecutionLoop(i) for i < totalLoops: the timers are not kept in
\* executionLoops
NewExecutionLoops(gen) == {Timer("exec", gen, i) : i \in 0..(totalLoops - 1)}

\* startOpportunityGenerators: one timer per strategy of getAllStrategies()
NewGenerators(gen) == {Timer("gen", gen, s) : s \in StrategyIds}

\* startAITrainingLoop
NewTrainingLoop(gen) == {Timer("train", gen, 0)}

\* startFlashLoanMonitoring: no timer unless flash loans are enabled in the
\* config and the executor is available
NewFlashLoanLoop(gen, enabled) ==
  IF enabled THEN {Timer("flash", gen, 0)} ELSE {}

\* start() that also zeroes the trade count
StartBodyResetsCount ==
  LET gen == generation + 1
      kept == NewGenerators(gen) \cup NewTrainingLoop(gen)
                \cup NewFlashLoanLoop(gen, flashAvailable)
  IN  /\ generation < MaxStarts
      /\ isRunning' = TRUE
      /\ generation' = gen
      /\ timers' = timers \cup NewExecutionLoops(gen) \cup kept
      /\ executionLoops' = executionLoops \cup kept
      /\ tradeCount' = 0
      /\ UNCHANGED opportunityQueue

\* the body of start() after the isRunning check
StartBody ==
  LET gen == generation + 1
      kept == NewGenerators(gen) \cup NewTrainingLoop(gen)
                \cup NewFlashLoanLoop(gen, flashAvailable)
  IN  /\ generation < MaxStarts
      /\ isRunning' = TRUE
      /\ generation' = gen
      /\ timers' = timers \cup NewExecutionLoops(gen) \cup kept
      /\ executionLoops' = executionLoops \cup kept
      /\ UNCHANGED <<tradeCount, opportunityQueue>>

\* start() without the isRunning check
startUnguarded ==
  /\ lastOp' = "start"
  /\ UNCHANGED <<componentVars, clockVars>>
  /\ StartBody
  /\ UNCHANGED <<batches, genPending, scans, registryVars,
                 strategyPerformance, predictorVars, created, hist>>

start ==
  /\ lastOp' = "start"
  /\ UNCHANGED <<componentVars, clockVars>>
  /\ IF isRunning
     THEN UNCHANGED <<isRunning, tradeCount, opportunityQueue, taskVars>>
     ELSE StartBody
  /\ UNCHANGED <<batches, genPending, scans, registryVars,
                 strategyPerformance, predictorVars, created, hist>>

(***************************************************************************)
(* UltraHighFrequencyEngine.stop                                           *)
(***************************************************************************)
\* a stop that flips the running flag of a stopped engine
stopToggles ==
  /\ lastOp' = "stop"
  /\ UNCHANGED <<componentVars, clockVars>>
  /\ IF ~isRunning
     THEN /\ isRunning' = TRUE
          /\ UNCHANGED <<executionLoops, timers, hist>>
     ELSE /\ isRunning' = FALSE
          /\ timers' = timers \ executionLoops
          /\ executionLoops' = {}
          /\ hist' = [hist EXCEPT !.atStop = @ \cup InFlight]
  /\ UNCHANGED <<tradeCount, opportunityQueue, generation, batches,
                 genPending, scans, registryVars, strategyPerformance,
                 predictorVars, created>>

stop ==
  /\ lastOp' = "stop"
  /\ UNCHANGED <<componentVars, clockVars>>
  /\ IF ~isRunning
     THEN UNCHANGED <<isRunning, executionLoops, timers, hist>>
     ELSE /\ isRunning' = FALSE
          /\ timers' = timers \ executionLoops
          /\ executionLoops' = {}
          /\ hist' = [hist EXCEPT !.atStop = @ \cup InFlight]
  /\ UNCHANGED <<tradeCount, opportunityQueue, generation, batches,
                 genPending, scans, registryVars, strategyPerformance,
                 predictorVars, created>>

(***************************************************************************)
(* UltraHighFrequencyEngine.addOpportunity and clearQueue                  *)
(***************************************************************************)
\* a queue that takes every offered opportunity
EnqueueAlways(q, o) == Append(q, o)

\* the queue after addOpportunity(o)
Enqueue(q, o) == IF Len(q) < maxQueueSize THEN Append(q, o) ELSE q

addOpportunity(o) ==
  /\ o \notin created
  /\ created' = created \cup {o}
  /\ opportunityQueue' = Enqueue(opportunityQueue, o)
  /\ hist' = [hist EXCEPT
       !.dropped = IF Len(opportunityQueue') = Len(opportunityQueue)
                   THEN @ + 1 ELSE @]
  /\ lastOp' = "step"
  /\ UNCHANGED <<componentVars, clockVars>>
  /\ UNCHANGED <<isRunning, tradeCount, taskVars, batches, genPending, scans,
                 registryVars, strategyPerformance, predictorVars>>

clearQueue ==
  /\ opportunityQueue # <<>>
  /\ opportunityQueue' = <<>>
  /\ lastOp' = "step"
  /\ UNCHANGED <<componentVars, clockVars>>
  /\ UNCHANGED <<isRunning, tradeCount, taskVars, batches, genPending, scans,
                 registryVars, strategyPerformance, predictorVars, created,
                 hist>>

(***************************************************************************)
(* startExecutionLoop: the callback of one cycle-runner timer              *)
(***************************************************************************)
\* an item of a batch: executeOpportunity(opp) suspended at an await
Item(o) == [opp |-> o, st |-> "predict", strat |-> 0, success |-> FALSE]

\* Opportunity.expiresAt
OppExpiresAt(o) == bootTime + o

\* whether a tick of runner t may take a batch from the queue
MayDequeue(t) == isRunning

\* a tick of runner t: up to the await of Promise.allSettled
executionLoopTick(t) ==
  /\ t \in LiveLoops
  /\ IF ~MayDequeue(t)
     THEN /\ timers' = timers \ {t}
          /\ UNCHANGED <<opportunityQueue, batches, hist>>
     ELSE LET n == Min(batchSize, Len(opportunityQueue))
              batch == SubSeq(opportunityQueue, 1, n)
          IN  /\ opportunityQueue' =
                   SubSeq(opportunityQueue, n + 1, Len(opportunityQueue))
              /\ batches' = IF n = 0 THEN batches
                            ELSE batches \cup
                                 {[loop |-> t,
                                   items |-> [i \in 1..n |-> Item(batch[i])]]}
              /\ hist' = [hist EXCEPT
                   !.deqStopped = @ \/ (n > 0 /\ ~isRunning),
                   !.deqExpired = @ \cup
                      {batch[i] : i \in {j \in 1..n :
                                           OppExpiresAt(batch[j]) <= clock}}]
              /\ UNCHANGED timers
  /\ lastOp' = "step"
  /\ UNCHANGED <<componentVars, clockVars>>
  /\ UNCHANGED <<isRunning, tradeCount, executionLoops, generation,
                 genPending, scans, registryVars, strategyPerformance,
                 predictorVars, created>>

\* the batch b with item i replaced
WithItem(b, i, item) == [b EXCEPT !.items[i] = item]

\* the threshold of the confidence gate of executeOpportunity
CycleGate == confidenceThreshold

\* a selection that falls back on the whole registry
CandidatesOrAll(reg, type) ==
  IF getStrategiesByType(reg, type) = <<>>
  THEN [i \in 1..Len(reg) |-> i]
  ELSE getStrategiesByType(reg, type)

\* the candidates executeOpportunity selects from
Candidates(reg, type) == getStrategiesByType(reg, type)

\* executeOpportunity from the return of predictProfitProbability (p) to the
\* call of strategy.execute, or to a rejected result
executeOpportunityGate(b, i, p) ==
  LET it == b.items[i]
      o == it.opp
      cands == Candidates(strategies, OppType(o))
      best == SortByPriority(strategies, cands)[1]
  IN  /\ b \in batches
      /\ i \in DOMAIN b.items
      /\ it.st = "predict"
      /\ IF p < CycleGate \/ cands = <<>>
         THEN /\ batches' = (batches \ {b}) \cup
                   {WithItem(b, i, [it EXCEPT !.st = "rejected"])}
              /\ UNCHANGED hist
         ELSE /\ batches' = (batches \ {b}) \cup
                   {WithItem(b, i, [it EXCEPT !.st = "executing",
                                              !.strat = best])}
              /\ hist' = [hist EXCEPT
                   !.stratExec[o] = @ + 1,
                   !.lowExec = IF p < confidenceThreshold
                               THEN @ \cup {o} ELSE @,
                   !.selDisabled = IF ~strategies[best].enabled
                                   THEN @ \cup {o} ELSE @,
                   !.selNotTop = IF best \notin EnabledTop(strategies, OppType(o))
                                 THEN @ \cup {o} ELSE @]
      /\ lastOp' = "step"
      /\ UNCHANGED <<componentVars, clockVars>>
      /\ UNCHANGED <<isRunning, tradeCount, opportunityQueue, taskVars,
                     genPending, scans, registryVars, strategyPerformance,
                     predictorVars, created>>

\* the result of the placeholder strategy.execute(o)
strategyExecute(o, success) ==
  TradeResult(success, IF success THEN OppProfitUSD(o) ELSE 0,
              OppExecutionTime(o))

\* executeOpportunity from the return of strategy.execute to its own return
executeOpportunityReturn(b, i, success) ==
  LET it == b.items[i]
      o == it.opp
  IN  /\ b \in batches
      /\ i \in DOMAIN b.items
      /\ it.st = "executing"
      /\ \E result \in {strategyExecute(o, success)} :
           /\ strategies' = updateStrategyPerformance(strategies, it.strat,
                                                      result)
           /\ hist' = [hist EXCEPT
                !.recorded[o] = @ + 1,
                !.outcomes[it.strat] = Tally(@, result)]
      /\ batches' = (batches \ {b}) \cup
                      {WithItem(b, i, [it EXCEPT !.st = "executed",
                                                 !.success = success])}
      /\ lastOp' = "step"
      /\ UNCHANGED <<componentVars, clockVars>>
      /\ UNCHANGED <<isRunning, tradeCount, opportunityQueue, taskVars,
                     genPending, scans, activeStrategies, strategyPerformance,
                     predictorVars, created>>

\* executeOpportunity when predictProfitProbability rejects: the catch
\* block returns a failed result
executeOpportunityPredictThrows(b, i) ==
  LET it == b.items[i]
  IN  /\ b \in batches
      /\ i \in DOMAIN b.items
      /\ it.st = "predict"
      /\ batches' = (batches \ {b}) \cup
                      {WithItem(b, i, [it EXCEPT !.st = "rejected"])}
      /\ hist' = [hist EXCEPT !.oracleThrew = @ \cup {it.opp}]
      /\ lastOp' = "step"
      /\ UNCHANGED <<componentVars, clockVars>>
      /\ UNCHANGED <<isRunning, tradeCount, opportunityQueue, taskVars,
                     genPending, scans, registryVars, strategyPerformance,
                     predictorVars, created>>

\* a rejection of strategy.execute that leaves the tick's continuation
\* without results
executeOpportunityThrowsAborts(b, i) ==
  LET it == b.items[i]
  IN  /\ b \in batches
      /\ i \in DOMAIN b.items
      /\ it.st = "executing"
      /\ batches' = batches \ {b}
      /\ hist' = [hist EXCEPT !.execThrew = @ \cup {it.opp}]
      /\ lastOp' = "step"
      /\ UNCHANGED <<componentVars, clockVars>>
      /\ UNCHANGED <<isRunning, tradeCount, opportunityQueue, taskVars,
                     genPending, scans, registryVars, strategyPerformance,
                     predictorVars, created>>

\* executeOpportunity when strategy.execute rejects: the call of
\* updateStrategyPerformance is skipped and the catch block returns a
\* failed result
executeOpportunityThrows(b, i) ==
  LET it == b.items[i]
  IN  /\ b \in batches
      /\ i \in DOMAIN b.items
      /\ it.st = "executing"
      /\ batches' = (batches \ {b}) \cup
                      {WithItem(b, i, [it EXCEPT !.st = "rejected"])}
      /\ hist' = [hist EXCEPT !.execThrew = @ \cup {it.opp}]
      /\ lastOp' = "step"
      /\ UNCHANGED <<componentVars, clockVars>>
      /\ UNCHANGED <<isRunning, tradeCount, opportunityQueue, taskVars,
                     genPending, scans, registryVars, strategyPerformance,
                     predictorVars, created>>

\* a continuation that is dropped once the engine is stopped
SettledWhileRunning(b) ==
  isRunning /\ \A i \in DOMAIN b.items : b.items[i].st \in {"rejected", "executed"}

\* result.status === 'fulfilled' && result.value, for the result of an
\* item: executeOpportunity never rejects and returns an object on each of
\* its paths
EmitsTradeExecuted(item) == item.st \in {"rejected", "executed"}

\* whether the continuation after Promise.allSettled of batch b may run
Settled(b) == \A i \in DOMAIN b.items : b.items[i].st \in {"rejected", "executed"}

\* a trainModel() that does not look at the isTraining flag
TrainModelStartsUnguarded(size, training) == size >= trainStep

\* whether trainModel() starts a training run
TrainModelStarts(size, training) == ~training /\ size >= trainStep

\* trainingData.length after k more addTrainingData calls
DataSizeAfter(size, k) == Min(size + k, maxTrainingData)

\* whether one of n addTrainingData calls starts trainModel
AutoTrains(size, n) ==
  \E k \in 1..n :
    LET len == DataSizeAfter(size, k)
    IN  len % trainStep = 0 /\ len >= trainThreshold /\ len >= trainStep

\* whether one of n addTrainingData calls starts a training run
AutoTrainStarts(size, n, training) ==
  AutoTrains(size, n) /\ TrainModelStarts(DataSizeAfter(size, n), training)

\* a trade count that counts batches
CountTradesPerBatch(count, n) == count + 1

\* tradeCount after a batch of n results
CountTrades(count, n) == count + n

\* whether updateStrategiesPerSecond called at time t writes the metric
SecondElapsed(t, last) == t - last >= oneSecond

\* updateStrategiesPerSecond(count) called at time t: the two fields after
\* the call
updateStrategiesPerSecond(count, t, metric, last) ==
  IF SecondElapsed(t, last)
  THEN [strategiesPerSecond |-> count, lastSecondTimestamp |-> t]
  ELSE [strategiesPerSecond |-> metric, lastSecondTimestamp |-> last]

\* the continuation of a tick after Promise.allSettled: every result is
\* fulfilled with an object, so each one is added to the training data
executionLoopSettle(b) ==
  LET n == Len(b.items)
      opps == {b.items[i].opp : i \in DOMAIN b.items}
  IN  /\ b \in batches
      /\ Settled(b)
      /\ batches' = batches \ {b}
      /\ tradeCount' = CountTrades(tradeCount, n)
      /\ \E m \in {updateStrategiesPerSecond(n, clock, strategiesPerSecond,
                                             lastSecondTimestamp)} :
           /\ strategiesPerSecond' = m.strategiesPerSecond
           /\ lastSecondTimestamp' = m.lastSecondTimestamp
      /\ trainingDataSize' = DataSizeAfter(trainingDataSize, n)
      /\ isTraining' = (isTraining \/ AutoTrainStarts(trainingDataSize, n, isTraining))
      /\ hist' = [hist EXCEPT
           !.counted =
              [o \in OppIds |-> IF o \in opps THEN @[o] + 1 ELSE @[o]],
           !.emitted =
              [o \in OppIds |->
                 @[o] + Cardinality({i \in DOMAIN b.items :
                                       b.items[i].opp = o
                                       /\ EmitsTradeExecuted(b.items[i])})],
           !.fits =
              IF AutoTrainStarts(trainingDataSize, n, isTraining) THEN @ + 1 ELSE @,
           !.sinceReset =
              IF SecondElapsed(clock, lastSecondTimestamp) THEN 0 ELSE @ + n]
      /\ lastOp' = "step"
      /\ UNCHANGED <<componentVars, clock>>
      /\ UNCHANGED <<isRunning, opportunityQueue, taskVars, genPending, scans,
                     registryVars, strategyPerformance, flashAvailable,
                     created>>

(***************************************************************************)
(* startOpportunityGenerators: the callback of the generator of strategy s *)
(***************************************************************************)
\* up to the await of strategy.analyze()
generatorTick(t) ==
  /\ t \in timers
  /\ t.kind = "gen"
  /\ IF ~isRunning
     THEN /\ timers' = timers \ {t}
          /\ UNCHANGED genPending
     ELSE /\ t.idx \notin genPending
          /\ Cardinality(genPending) < MaxPendingGen
          /\ genPending' = genPending \cup {t.idx}
          /\ UNCHANGED timers
  /\ lastOp' = "step"
  /\ UNCHANGED <<componentVars, clockVars>>
  /\ UNCHANGED <<isRunning, tradeCount, opportunityQueue, executionLoops,
                 generation, batches, scans, registryVars,
                 strategyPerformance, predictorVars, created, hist>>

\* the lists analyze() may return: new opportunities, by ascending id
RECURSIVE SeqOfSet(_)
SeqOfSet(S) ==
  IF S = {} THEN <<>>
  ELSE LET m == CHOOSE x \in S : \A y \in S : x <= y
       IN  <<m>> \o SeqOfSet(S \ {m})

AnalyzeResults ==
  {SeqOfSet(S) : S \in {T \in SUBSET (OppIds \ created) : Cardinality(T) <= MaxAnalyze}}

\* the queue after the generator's push of the list opps
PushAll(q, opps) == IF Len(q) < maxQueueSize THEN q \o opps ELSE q

\* from the return of strategy.analyze() on
generatorPush(s, opps) ==
  /\ s \in genPending
  /\ opps \in AnalyzeResults
  /\ genPending' = genPending \ {s}
  /\ created' = created \cup {opps[i] : i \in DOMAIN opps}
  /\ opportunityQueue' = PushAll(opportunityQueue, opps)
  /\ hist' = [hist EXCEPT
       !.dropped = IF Len(opportunityQueue') = Len(opportunityQueue)
                   THEN @ + Len(opps) ELSE @]
  /\ lastOp' = "step"
  /\ UNCHANGED <<componentVars, clockVars>>
  /\ UNCHANGED <<isRunning, tradeCount, taskVars, batches, scans,
                 registryVars, strategyPerformance, predictorVars>>

(***************************************************************************)
(* startAITrainingLoop and NeuralNetworkPredictor.trainModel               *)
(***************************************************************************)
trainingLoopTick(t) ==
  /\ t \in timers
  /\ t.kind = "train"
  /\ IF ~isRunning
     THEN /\ timers' = timers \ {t}
          /\ UNCHANGED <<isTraining, hist>>
     ELSE /\ isTraining' =
               IF trainingDataSize >= trainThreshold /\ ~isTraining
                  /\ TrainModelStarts(trainingDataSize, isTraining)
               THEN TRUE ELSE isTraining
          /\ hist' = [hist EXCEPT
               !.fits = IF trainingDataSize >= trainThreshold /\ ~isTraining
                           /\ TrainModelStarts(trainingDataSize, isTraining)
                        THEN @ + 1 ELSE @]
          /\ UNCHANGED timers
  /\ lastOp' = "step"
  /\ UNCHANGED <<componentVars, clockVars>>
  /\ UNCHANGED <<isRunning, tradeCount, opportunityQueue, executionLoops,
                 generation, batches, genPending, scans, registryVars,
                 strategyPerformance, trainingDataSize, flashAvailable,
                 created>>

\* POST /api/ai/train: trainModel() called by hand
trainModel ==
  /\ isTraining' = (isTraining \/ TrainModelStarts(trainingDataSize, isTraining))
  /\ hist' = [hist EXCEPT
       !.fits = IF TrainModelStarts(trainingDataSize, isTraining)
                THEN @ + 1 ELSE @]
  /\ lastOp' = "trainModel"
  /\ UNCHANGED <<componentVars, clockVars>>
  /\ UNCHANGED <<isRunning, tradeCount, opportunityQueue, taskVars, batches,
                 genPending, scans, registryVars, strategyPerformance,
                 trainingDataSize, flashAvailable, created>>

\* a trainModel without its finally block: a fit that throws leaves the flag
IsTrainingAfterFitUncaught(threw) == threw

\* isTraining once the try statement of trainModel is left: the finally block
\* runs after the try block and after the catch block alike
IsTrainingAfterFit(threw) == FALSE

\* model.fit resolves: the finally block of trainModel
trainModelFinish ==
  /\ hist.fits > 0
  /\ isTraining' = IsTrainingAfterFit(FALSE)
  /\ hist' = [hist EXCEPT !.fits = @ - 1]
  /\ lastOp' = "step"
  /\ UNCHANGED <<componentVars, clockVars>>
  /\ UNCHANGED <<isRunning, tradeCount, opportunityQueue, taskVars, batches,
                 genPending, scans, registryVars, strategyPerformance,
                 trainingDataSize, flashAvailable, created>>

\* model.fit (or the tensor set-up before it) throws: the catch block logs
\* and the finally block runs
trainModelCatch ==
  /\ hist.fits > 0
  /\ isTraining' = IsTrainingAfterFit(TRUE)
  /\ hist' = [hist EXCEPT !.fits = @ - 1]
  /\ lastOp' = "catch"
  /\ UNCHANGED <<componentVars, clockVars>>
  /\ UNCHANGED <<isRunning, tradeCount, opportunityQueue, taskVars, batches,
                 genPending, scans, registryVars, strategyPerformance,
                 trainingDataSize, flashAvailable, created>>

(***************************************************************************)
(* BlockchainProvider.getProviderWithFailover for one chain.  Providers    *)
(* are named by their position in the chain's list.  A call runs from its  *)
(* entry, or from a rejected probe, to the next await of getBlockNumber.   *)
(***************************************************************************)
\* a failover that steps to the next position without wrapping around
NextIndexUnwrapped(currentIndex, length) == currentIndex + 1

\* (currentIndex + 1) % providers.length
NextIndex(currentIndex, length) == (currentIndex + 1) % length

\* getProvider: providers[currentIndex] of the chain
getProvider == currentProviderIndex

\* the call is made: it throws on an empty list, else it reads the current
\* index and awaits the probe of that provider
getProviderWithFailover(c) ==
  /\ failovers[c].pc = "idle"
  /\ failovers' = [failovers EXCEPT ![c] =
       IF providers = 0
       THEN [IdleCall EXCEPT !.pc = "thrown"]
       ELSE [IdleCall EXCEPT !.pc = "probing",
                             !.currentIndex = getProvider]]
  /\ lastOp' = "step"
  /\ UNCHANGED <<providers, currentProviderIndex>>
  /\ UNCHANGED <<isRunning, tradeCount, opportunityQueue, taskVars, batches,
                 genPending, scans, created, clockVars, registryVars,
                 predictorVars, strategyPerformance, candidate, decision,
                 opportunities, flashLoanAmountETH, hist>>

\* provider.getBlockNumber() resolves: return provider
probeResolves(c) ==
  /\ failovers[c].pc = "probing"
  /\ failovers' = [failovers EXCEPT
       ![c].pc = "returned",
       ![c].provider = failovers[c].currentIndex,
       ![c].probed = Append(@, <<failovers[c].currentIndex, TRUE>>)]
  /\ lastOp' = "step"
  /\ UNCHANGED <<providers, currentProviderIndex>>
  /\ UNCHANGED <<isRunning, tradeCount, opportunityQueue, taskVars, batches,
                 genPending, scans, created, clockVars, registryVars,
                 predictorVars, strategyPerformance, candidate, decision,
                 opportunities, flashLoanAmountETH, hist>>

\* provider.getBlockNumber() rejects: the catch block moves the chain to the
\* next provider and counts the attempt; the loop either reads the index
\* again and awaits the next probe, or ends and the call throws
probeRejects(c) ==
  /\ failovers[c].pc = "probing"
  /\ LET call == failovers[c]
         nextIndex == NextIndex(call.currentIndex, providers)
         attempts == call.attempts + 1
         probed == Append(call.probed, <<call.currentIndex, FALSE>>)
     IN  /\ currentProviderIndex' = nextIndex
         /\ failovers' = [failovers EXCEPT ![c] =
              IF attempts < providers
              THEN [call EXCEPT !.attempts = attempts,
                                !.currentIndex = nextIndex,
                                !.probed = probed]
              ELSE [call EXCEPT !.pc = "thrown",
                                !.attempts = attempts,
                                !.probed = probed]]
  /\ lastOp' = "step"
  /\ UNCHANGED providers
  /\ UNCHANGED <<isRunning, tradeCount, opportunityQueue, taskVars, batches,
                 genPending, scans, created, clockVars, registryVars,
                 predictorVars, strategyPerformance, candidate, decision,
                 opportunities, flashLoanAmountETH, hist>>

\* the caller has taken the provider or the error of a finished call
failoverDone(c) ==
  /\ failovers[c].pc \in {"returned", "thrown"}
  /\ failovers' = [failovers EXCEPT ![c] = IdleCall]
  /\ lastOp' = "step"
  /\ UNCHANGED <<providers, currentProviderIndex>>
  /\ UNCHANGED <<isRunning, tradeCount, opportunityQueue, taskVars, batches,
                 genPending, scans, created, clockVars, registryVars,
                 predictorVars, strategyPerformance, candidate, decision,
                 opportunities, flashLoanAmountETH, hist>>

(***************************************************************************)
(* startFlashLoanMonitoring: the callback of the monitor timer             *)
(***************************************************************************)
\* opportunityQueue.filter(opp => opp.type === 'FLASH_LOAN')
RECURSIVE FlashLoanOpps(_)
FlashLoanOpps(q) ==
  IF q = <<>> THEN <<>>
  ELSE (IF OppType(Head(q)) = "FLASH_LOAN" THEN <<Head(q)>> ELSE <<>>)
         \o FlashLoanOpps(Tail(q))

\* a tick of the monitor: the items stay in the queue
flashLoanTick(t) ==
  /\ t \in timers
  /\ t.kind = "flash"
  /\ IF ~isRunning
     THEN /\ timers' = timers \ {t}
          /\ UNCHANGED <<scans, hist>>
     ELSE LET found == FlashLoanOpps(opportunityQueue)
          IN  /\ hist.scanned < MaxScans
              /\ [rest |-> found, st |-> "predict"] \notin scans
              /\ scans' = IF found = <<>> THEN scans
                          ELSE scans \cup {[rest |-> found, st |-> "predict"]}
              /\ hist' = [hist EXCEPT
                   !.scanned = IF found = <<>> THEN @ ELSE @ + 1]
              /\ UNCHANGED timers
  /\ lastOp' = "step"
  /\ UNCHANGED <<componentVars, clockVars>>
  /\ UNCHANGED <<isRunning, tradeCount, opportunityQueue, executionLoops,
                 generation, batches, genPending, registryVars,
                 strategyPerformance, predictorVars, created>>

\* the scans after scan sc has finished with the head of its list
NextOpp(sc) ==
  IF Len(sc.rest) = 1 THEN scans \ {sc}
  ELSE (scans \ {sc}) \cup {[rest |-> Tail(sc.rest), st |-> "predict"]}

\* the threshold of the monitor's gate
MonitorGate == flashLoanThreshold

\* the argument of realFlashLoanExecutor.executeFlashLoan for the queued
\* opportunity o and the estimate p (in percent); the risk score is
\* 1 - aiProbability
flashLoanRequest(o, p) ==
  [id |-> o,
   loanAmount |-> flashLoanAmountETH,
   estimatedProfitUSD |-> OppProfitUSD(o),
   confidence |-> Num(p, 100),
   riskScore |-> Num(100 - p, 100),
   steps |-> <<>>]

\* the for-loop body from the return of predictProfitProbability (p) to the
\* call of realFlashLoanExecutor.executeFlashLoan
flashLoanGate(sc, p) ==
  LET o == Head(sc.rest)
  IN  /\ sc \in scans
      /\ sc.st = "predict"
      /\ IF p >= MonitorGate
         THEN /\ scans' = (scans \ {sc}) \cup {[sc EXCEPT !.st = "executing"]}
              /\ hist' = [hist EXCEPT
                   !.flashExec[o] = @ + 1,
                   !.handed = @ \cup {flashLoanRequest(o, p).steps},
                   !.lowExec = IF p < confidenceThreshold
                               THEN @ \cup {o} ELSE @]
         ELSE /\ scans' = NextOpp(sc)
              /\ UNCHANGED hist
      /\ lastOp' = "step"
      /\ UNCHANGED <<componentVars, clockVars>>
      /\ UNCHANGED <<isRunning, tradeCount, opportunityQueue, taskVars,
                     batches, genPending, registryVars, strategyPerformance,
                     predictorVars, created>>

\* the return of executeFlashLoan: an event on success, then the next item
flashLoanReturn(sc) ==
  /\ sc \in scans
  /\ sc.st = "executing"
  /\ scans' = NextOpp(sc)
  /\ lastOp' = "step"
  /\ UNCHANGED <<componentVars, clockVars>>
  /\ UNCHANGED <<isRunning, tradeCount, opportunityQueue, taskVars, batches,
                 genPending, registryVars, strategyPerformance,
                 predictorVars, created, hist>>

(***************************************************************************)
(* The passing of time between two callbacks                              *)
(***************************************************************************)
clockAdvance ==
  /\ clock < bootTime + MaxElapsed
  /\ clock' = clock + 1
  /\ lastOp' = "step"
  /\ UNCHANGED <<componentVars, strategiesPerSecond, lastSecondTimestamp>>
  /\ UNCHANGED <<isRunning, tradeCount, opportunityQueue, taskVars, batches,
                 genPending, scans, registryVars, strategyPerformance,
                 predictorVars, created, hist>>

(***************************************************************************)
(* UltraHighFrequencyEngine.getMetrics.  flashLoanStats are counters of   *)
(* the flash loan executor, written only by its executeFlashLoan, and are  *)
(* left out.                                                               *)
(***************************************************************************)
getMetrics ==
  [isRunning |-> isRunning,
   tradeCount |-> tradeCount,
   strategiesPerSecond |-> strategiesPerSecond,
   queueSize |-> Len(opportunityQueue),
   numWorkers |-> numWorkers,
   aiMetrics |-> [trainingDataSize |-> trainingDataSize,
                  isTraining |-> isTraining]]

(***************************************************************************)
(* StrategyRegistry.activateStrategy and deactivateStrategy                *)
(***************************************************************************)
activateStrategy(id) ==
  /\ id \in StrategyIds
  /\ strategies' = [strategies EXCEPT ![id].enabled = TRUE]
  /\ activeStrategies' = activeStrategies \cup {id}
  /\ lastOp' = "step"
  /\ UNCHANGED <<componentVars, clockVars>>
  /\ UNCHANGED <<isRunning, tradeCount, opportunityQueue, taskVars, batches,
                 genPending, scans, strategyPerformance, predictorVars,
                 created, hist>>

\* a deactivation that also starts the record's statistics afresh
deactivateStrategyResets(id) ==
  /\ id \in StrategyIds
  /\ strategies' = [strategies EXCEPT ![id].enabled = FALSE,
                                      ![id].totalTrades = 0,
                                      ![id].profitabletrades = 0,
                                      ![id].totalProfitUSD = 0,
                                      ![id].successRate = <<0, 1>>,
                                      ![id].averageExecutionTime = <<0, 1>>]
  /\ activeStrategies' = activeStrategies \ {id}
  /\ lastOp' = "deactivate"
  /\ UNCHANGED <<componentVars, clockVars>>
  /\ UNCHANGED <<isRunning, tradeCount, opportunityQueue, taskVars, batches,
                 genPending, scans, strategyPerformance, predictorVars,
                 created, hist>>

deactivateStrategy(id) ==
  /\ id \in StrategyIds
  /\ strategies' = [strategies EXCEPT ![id].enabled = FALSE]
  /\ activeStrategies' = activeStrategies \ {id}
  /\ lastOp' = "deactivate"
  /\ UNCHANGED <<componentVars, clockVars>>
  /\ UNCHANGED <<isRunning, tradeCount, opportunityQueue, taskVars, batches,
                 genPending, scans, strategyPerformance, predictorVars,
                 created, hist>>

\* getStrategyStats(): the counts by risk tier are not modelled
getStrategyStats(reg, active) ==
  [total |-> Len(reg),
   active |-> Cardinality(active),
   byType |-> [t \in {reg[i].type : i \in DOMAIN reg} |->
                 Cardinality({i \in DOMAIN reg : reg[i].type = t})]]

(***************************************************************************)
(* StrategyRegistry.updateStrategyPerformance called by settling           *)
(* executions.  The method has no await: on the single thread of the       *)
(* runtime each call runs to completion, so executions that settle         *)
(* concurrently make their calls one after the other, in any order.        *)
(***************************************************************************)
\* the TradeResult objects a strategy's execute may resolve to
TradeResults ==
  {TradeResult(ok, p, ms) : ok \in BOOLEAN, p \in {0, 2}, ms \in {1, 2}}

\* outcomes recorded so far for the strategies i, i + 1, ...
RECURSIVE RecordedFrom(_)
RecordedFrom(i) ==
  IF i \notin StrategyIds THEN 0
  ELSE hist.outcomes[i].n + RecordedFrom(i + 1)

Recorded == RecordedFrom(1)

recordOutcome(id, result) ==
  /\ id \in StrategyIds
  /\ result \in TradeResults
  /\ Recorded < MaxOutcomes
  /\ strategies' = updateStrategyPerformance(strategies, id, result)
  /\ hist' = [hist EXCEPT !.outcomes[id] = Tally(@, result)]
  /\ lastOp' = "step"
  /\ UNCHANGED <<componentVars, clockVars>>
  /\ UNCHANGED <<isRunning, tradeCount, opportunityQueue, taskVars, batches,
                 genPending, scans, activeStrategies, strategyPerformance,
                 predictorVars, created>>

\* an id that strategies.get(id) does not find
UnknownId == 0

\* updateStrategyPerformance called with an id the registry does not hold
recordOutcomeUnknown(result) ==
  /\ result \in TradeResults
  /\ strategies' = updateStrategyPerformance(strategies, UnknownId, result)
  /\ lastOp' = "unknown"
  /\ UNCHANGED <<componentVars, clockVars>>
  /\ UNCHANGED <<isRunning, tradeCount, opportunityQueue, taskVars, batches,
                 genPending, scans, activeStrategies, strategyPerformance,
                 predictorVars, created, hist>>

(***************************************************************************)
(* AIDecisionEngine.updateStrategyPerformance                              *)
(***************************************************************************)
\* recentPerformance.filter(x => x === 1).length
RECURSIVE Successes(_)
Successes(w) ==
  IF w = <<>> THEN 0 ELSE (IF Head(w) = 1 THEN 1 ELSE 0) + Successes(Tail(w))

\* an update that rates the window against the total trade count
PerformanceAfterOverTotal(perf, success, profit) ==
  LET total == perf.totalTrades + 1
      pushed == Append(perf.recentPerformance, IF success THEN 1 ELSE 0)
      recent == IF Len(pushed) > recentWindow THEN Tail(pushed) ELSE pushed
  IN  [successRate |-> Div(Int2Num(Successes(recent)), Int2Num(total)),
       avgProfit |-> Div(Plus(Times(perf.avgProfit, Int2Num(total - 1)),
                              Int2Num(profit)),
                         Int2Num(total)),
       totalTrades |-> total,
       recentPerformance |-> recent]

\* the entry of a type after updateStrategyPerformance(type, success, profit)
PerformanceAfter(perf, success, profit) ==
  LET total == perf.totalTrades + 1
      pushed == Append(perf.recentPerformance, IF success THEN 1 ELSE 0)
      recent == IF Len(pushed) > recentWindow THEN Tail(pushed) ELSE pushed
  IN  [successRate |-> Div(Int2Num(Successes(recent)), Int2Num(Len(recent))),
       avgProfit |-> Div(Plus(Times(perf.avgProfit, Int2Num(total - 1)),
                              Int2Num(profit)),
                         Int2Num(total)),
       totalTrades |-> total,
       recentPerformance |-> recent]

\* updates made so far, over the types of ts
RECURSIVE UpdatesOf(_)
UpdatesOf(ts) ==
  IF ts = {} THEN 0
  ELSE LET t == CHOOSE x \in ts : TRUE
       IN  strategyPerformance[t].totalTrades + UpdatesOf(ts \ {t})

updatePerformance(type, success, profit) ==
  /\ UpdatesOf(StrategyTypes) < MaxUpdates
  /\ strategyPerformance' =
       [strategyPerformance EXCEPT
          ![type] = PerformanceAfter(@, success, profit)]
  /\ hist' = [hist EXCEPT !.perfLog[type] = Append(@, IF success THEN 1 ELSE 0)]
  /\ lastOp' = "step"
  /\ UNCHANGED <<dispatchVars, registryVars, predictorVars, componentVars>>

(***************************************************************************)
(* AIDecisionEngine.analyzeOpportunity                                     *)
(***************************************************************************)
\* the opportunities handed to analyzeOpportunity: gasEstimate,
\* estimatedProfitUSD and confidence are numbers, timestamp and expiresAt
\* are in ms
Opportunities ==
  [type : StrategyTypes,
   gasEstimate : {<<-1, 100>>, <<0, 1>>, <<1, 100>>},
   estimatedProfitUSD : {Int2Num(-1), Int2Num(0), Int2Num(3), Int2Num(100)},
   confidence : {<<1, 2>>, <<1, 1>>},
   timestamp : {4000, 9500},
   expiresAt : {10500, 70000}]

\* Date.now() and new Date().getHours() during an analysis
AnalysisTimes == {10000}
Hours == {2, 10, 20}

\* Math.min(Math.max(x, 0), 1)
Clamp(x) == MathMin(MathMax(x, <<0, 1>>), <<1, 1>>)

\* typeRisk[opportunity.type] || 0.5
typeRisk(type) ==
  CASE type = "ARBITRAGE" -> <<2, 10>>
    [] type = "FLASH_LOAN" -> <<7, 10>>
    [] type = "MEV" -> <<6, 10>>
    [] OTHER -> <<5, 10>>

\* AIDecisionEngine.calculateRiskScore
calculateRiskScore(opportunity, now) ==
  LET gasCostPercent ==
        Div(Times(opportunity.gasEstimate, Int2Num(50)),
            opportunity.estimatedProfitUSD)
      timeToExpiry == opportunity.expiresAt - now
      urgency == IF timeToExpiry < 1000 THEN <<3, 10>>
                 ELSE IF timeToExpiry < 5000 THEN <<2, 10>>
                 ELSE IF timeToExpiry < 10000 THEN <<1, 10>>
                 ELSE <<0, 1>>
      score ==
        Plus(Plus(Plus(typeRisk(opportunity.type),
                       MathMin(Div(gasCostPercent, Int2Num(100)), <<3, 10>>)),
                  urgency),
             Times(Minus(<<1, 1>>, opportunity.confidence), <<3, 10>>))
  IN  Clamp(score)

\* AIDecisionEngine.calculateProfitProbability; perf is the entry of the
\* opportunity's type
calculateProfitProbability(opportunity, perf) ==
  LET base == IF perf.totalTrades > 0
              THEN Div(Plus(opportunity.confidence, perf.successRate),
                       Int2Num(2))
              ELSE opportunity.confidence
      profitMargin ==
        Div(opportunity.estimatedProfitUSD,
            OrElse(Times(opportunity.gasEstimate, Int2Num(50)), <<1, 1>>))
      probability ==
        IF Less(Int2Num(5), profitMargin) THEN Plus(base, <<1, 10>>)
        ELSE IF Less(Int2Num(2), profitMargin) THEN Plus(base, <<5, 100>>)
        ELSE IF Less(profitMargin, <<12, 10>>) THEN Minus(base, <<2, 10>>)
        ELSE base
  IN  Clamp(probability)

\* AIDecisionEngine.analyzeMarketConditions
analyzeMarketConditions(hour) ==
  LET peak == IF hour >= 9 /\ hour <= 16
              THEN Plus(<<7, 10>>, <<1, 10>>) ELSE <<7, 10>>
      score == IF hour >= 0 /\ hour <= 4 THEN Minus(peak, <<1, 10>>) ELSE peak
  IN  Clamp(score)

\* AIDecisionEngine.getStrategyReliability
getStrategyReliability(type, perf) ==
  IF perf.totalTrades < minReliabilityTrades
  THEN (IF type = "ARBITRAGE" THEN <<8, 10>> ELSE <<6, 10>>)
  ELSE perf.successRate

\* AIDecisionEngine.analyzeTimingFactors
analyzeTimingFactors(opportunity, now) ==
  LET timeToExpiry == opportunity.expiresAt - now
      age == now - opportunity.timestamp
      aged == IF age > 5000 THEN <<7, 10>>
              ELSE IF age > 2000 THEN <<9, 10>>
              ELSE <<1, 1>>
      score == IF timeToExpiry < 1000 THEN Minus(aged, <<4, 10>>)
               ELSE IF timeToExpiry < 3000 THEN Minus(aged, <<2, 10>>)
               ELSE aged
  IN  Clamp(score)

\* AIDecisionEngine.calculateConfidence
calculateConfidence(factors) ==
  Clamp(Plus(Plus(Plus(Plus(
    Times(Minus(<<1, 1>>, factors.riskScore), <<25, 100>>),
    Times(factors.profitProbability, <<30, 100>>)),
    Times(factors.marketConditions, <<15, 100>>)),
    Times(factors.strategyReliability, <<20, 100>>)),
    Times(factors.timingScore, <<10, 100>>)))

\* an accept rule whose second risk check rejects the higher confidences
shouldExecuteTradeInverted(confidence, riskScore, opportunity) ==
  /\ ~Less(confidence, <<6, 10>>)
  /\ ~(Less(<<7, 10>>, riskScore) /\ Less(confidence, <<85, 100>>))
  /\ ~(Less(<<5, 10>>, riskScore) /\ Less(<<75, 100>>, confidence))
  /\ ~Less(opportunity.estimatedProfitUSD, <<1, 1>>)
  /\ ~Less(Minus(opportunity.estimatedProfitUSD,
                 Times(opportunity.gasEstimate, Int2Num(50))), <<1, 2>>)

\* AIDecisionEngine.shouldExecuteTrade
shouldExecuteTrade(confidence, riskScore, opportunity) ==
  /\ ~Less(confidence, <<6, 10>>)
  /\ ~(Less(<<7, 10>>, riskScore) /\ Less(confidence, <<85, 100>>))
  /\ ~(Less(<<5, 10>>, riskScore) /\ Less(confidence, <<75, 100>>))
  /\ ~Less(opportunity.estimatedProfitUSD, <<1, 1>>)
  /\ ~Less(Minus(opportunity.estimatedProfitUSD,
                 Times(opportunity.gasEstimate, Int2Num(50))), <<1, 2>>)

\* analyzeOpportunity(candidate) at time now, in the hour hour: the scores
\* it computes and the verdict (rationale and recommendations not modelled)
analyzeOpportunity(now, hour) ==
  LET opportunity == candidate
      perf == strategyPerformance[opportunity.type]
      riskScore == calculateRiskScore(opportunity, now)
      profitProbability == calculateProfitProbability(opportunity, perf)
      marketConditions == analyzeMarketConditions(hour)
      strategyReliability == getStrategyReliability(opportunity.type, perf)
      timingScore == analyzeTimingFactors(opportunity, now)
      confidence ==
        calculateConfidence([riskScore |-> riskScore,
                             profitProbability |-> profitProbability,
                             marketConditions |-> marketConditions,
                             strategyReliability |-> strategyReliability,
                             timingScore |-> timingScore])
  IN  /\ decision' =
           [made |-> TRUE,
            riskScore |-> riskScore,
            profitProbability |-> profitProbability,
            timingScore |-> timingScore,
            confidence |-> confidence,
            shouldExecute |->
              shouldExecuteTrade(confidence, riskScore, opportunity)]
      /\ lastOp' = "step"
      /\ UNCHANGED <<dispatchVars, registryVars, strategyPerformance,
                     predictorVars, candidate, opportunities,
                     flashLoanAmountETH, hist>>

(***************************************************************************)
(* FlashLoanEngine                                                         *)
(***************************************************************************)
\* prices in the price cache: fractions, and 1 / parseFloat(rate) for a
\* rate of 0
Prices == {<<1, 1>>, <<1003, 1000>>, <<101, 100>>, <<103, 100>>, Infinity}

\* parseFloat(process.env.FLASH_LOAN_AMOUNT_ETH || '100'): NaN when the
\* variable does not start with a number
LoanAmounts == {Int2Num(10), Int2Num(100), NaN}

\* the values of Date.now() at a scan
ScanTimes == {0, 6000, 12000}

\* priceFeedAggregator.findArbitrageOpportunities(minProfitPercent) for one
\* token whose lowest and highest cached prices are low and high
findArbitrageOpportunities(low, high, minProfitPercent) ==
  LET profitPercent == Times(Div(Minus(high, low), low), Int2Num(100))
  IN  IF LessEq(minProfitPercent, profitPercent)
      THEN {[buyPrice |-> low, sellPrice |-> high,
             profitPercent |-> profitPercent]}
      ELSE {}

\* FlashLoanEngine.calculateConfidence
flashCalculateConfidence(profitPercent, netProfit) ==
  LET byPercent ==
        IF Less(Int2Num(2), profitPercent) THEN <<3, 10>>
        ELSE IF Less(Int2Num(1), profitPercent) THEN <<2, 10>>
        ELSE IF Less(<<1, 2>>, profitPercent) THEN <<1, 10>>
        ELSE <<0, 1>>
      byProfit ==
        IF Less(Int2Num(1), netProfit) THEN <<2, 10>>
        ELSE IF Less(<<1, 2>>, netProfit) THEN <<1, 10>>
        ELSE <<0, 1>>
  IN  MathMin(Plus(Plus(<<1, 2>>, byPercent), byProfit), <<95, 100>>)

\* FlashLoanEngine.calculateRiskScore
flashCalculateRiskScore(loanAmount, profitPercent) ==
  LET byLoan ==
        IF Less(Int2Num(500), loanAmount) THEN <<3, 10>>
        ELSE IF Less(Int2Num(100), loanAmount) THEN <<2, 10>>
        ELSE IF Less(Int2Num(50), loanAmount) THEN <<1, 10>>
        ELSE <<0, 1>>
      byPercent ==
        IF Less(profitPercent, <<1, 2>>) THEN <<3, 10>>
        ELSE IF Less(profitPercent, Int2Num(1)) THEN <<2, 10>>
        ELSE IF Less(profitPercent, Int2Num(2)) THEN <<1, 10>>
        ELSE <<0, 1>>
  IN  MathMin(Plus(Plus(<<3, 10>>, byLoan), byPercent), <<95, 100>>)

\* analyzeFlashLoanOpportunity returned null
NoOpportunity == [viable |-> FALSE]

\* FlashLoanEngine.analyzeFlashLoanOpportunity: the opportunity built from a
\* signal, or NoOpportunity (the steps are not modelled)
analyzeFlashLoanOpportunity(loanAmount, arbitrage, ethPrice, now) ==
  LET buyValue == Times(loanAmount, arbitrage.buyPrice)
      sellValue == Times(loanAmount, arbitrage.sellPrice)
      grossProfit == Minus(sellValue, buyValue)
      flashLoanFee == Times(loanAmount, <<9, 10000>>)
      gasCost == <<1, 2>>
      slippageCost == Times(grossProfit, <<5, 1000>>)
      netProfit ==
        Minus(Minus(Minus(grossProfit, flashLoanFee), gasCost), slippageCost)
      bought == Div(loanAmount, arbitrage.buyPrice)
      steps ==
        <<[action |-> "BORROW", dex |-> "", amountIn |-> loanAmount],
          [action |-> "SWAP", dex |-> "buySource", amountIn |-> loanAmount],
          [action |-> "SWAP", dex |-> "sellSource", amountIn |-> bought],
          [action |-> "REPAY", dex |-> "",
           amountIn |-> Plus(loanAmount, flashLoanFee)]>>
  IN  IF LessEq(netProfit, <<0, 1>>) THEN NoOpportunity
      ELSE [viable |-> TRUE,
            loanAmount |-> loanAmount,
            steps |-> steps,
            estimatedProfit |-> netProfit,
            estimatedProfitUSD |-> Times(netProfit, ethPrice),
            confidence |->
              flashCalculateConfidence(arbitrage.profitPercent, netProfit),
            riskScore |->
              flashCalculateRiskScore(loanAmount, arbitrage.profitPercent),
            timestamp |-> now]

\* FlashLoanEngine.isOpportunityProfitable
isOpportunityProfitable(opportunity, enableFlashLoans) ==
  /\ ~Less(opportunity.estimatedProfitUSD, Int2Num(minProfitThresholdUSD))
  /\ ~Less(opportunity.confidence, Num(confidenceThreshold, 100))
  /\ ~Less(<<7, 10>>, opportunity.riskScore)
  /\ enableFlashLoans

\* this.opportunities.filter(opp => Date.now() - opp.timestamp < 10000)
RECURSIVE RecentOnly(_, _)
RecentOnly(opps, now) ==
  IF opps = <<>> THEN <<>>
  ELSE (IF now - Head(opps).timestamp < maxOpportunityAge
        THEN <<Head(opps)>> ELSE <<>>) \o RecentOnly(Tail(opps), now)

\* one pass of the for-loop of scanForOpportunities, for the signal of a
\* token whose lowest and highest prices are low and high.  The flag
\* config.trading.enableFlashLoans is read from flashAvailable, which is
\* true only when the flag is.
scanForOpportunities(low, high, now) ==
  /\ Len(opportunities) < MaxStored
  /\ \A i \in DOMAIN opportunities : opportunities[i].timestamp <= now
  /\ \E arb \in findArbitrageOpportunities(low, high, <<3, 10>>) :
       LET opportunity ==
             analyzeFlashLoanOpportunity(flashLoanAmountETH, arb,
                                         Int2Num(defaultETHPrice), now)
       IN  opportunities' =
             IF opportunity.viable
                /\ isOpportunityProfitable(opportunity, flashAvailable)
             THEN RecentOnly(Append(opportunities, opportunity), now)
             ELSE opportunities
  /\ lastOp' = "step"
  /\ UNCHANGED <<dispatchVars, registryVars, strategyPerformance,
                 predictorVars, candidate, decision, flashLoanAmountETH,
                 hist>>

(***************************************************************************)
(* Specifications                                                          *)
(***************************************************************************)
\* the callers of the engine
Callers ==
  \/ start
  \/ stop
  \/ \E o \in OppIds : addOpportunity(o)
  \/ clearQueue

\* the cycle-runners
Cycles ==
  \/ \E t \in timers : executionLoopTick(t)
  \/ \E b \in batches : \E i \in DOMAIN b.items : \E p \in Estimates :
       executeOpportunityGate(b, i, p)
  \/ \E b \in batches : \E i \in DOMAIN b.items : \E ok \in BOOLEAN :
       executeOpportunityReturn(b, i, ok)
  \/ \E b \in batches : executionLoopSettle(b)

\* rejections of the awaited calls of executeOpportunity
Faults ==
  \/ \E b \in batches : \E i \in DOMAIN b.items :
       executeOpportunityPredictThrows(b, i)
  \/ \E b \in batches : \E i \in DOMAIN b.items :
       executeOpportunityThrows(b, i)

\* the opportunity generators
Generators ==
  \/ \E t \in timers : generatorTick(t)
  \/ \E s \in StrategyIds : \E opps \in AnalyzeResults : generatorPush(s, opps)

\* the retraining trigger
Training ==
  \/ \E t \in timers : trainingLoopTick(t)
  \/ trainModelFinish

\* the leveraged-opportunity monitor
Monitor ==
  \/ \E t \in timers : flashLoanTick(t)
  \/ \E sc \in scans : \E p \in Estimates : flashLoanGate(sc, p)
  \/ \E sc \in scans : flashLoanReturn(sc)

\* the callers of the registry
Registry ==
  \/ \E id \in StrategyIds : activateStrategy(id)
  \/ \E id \in StrategyIds : deactivateStrategy(id)

Next == Callers \/ Cycles \/ Training

Spec == Init /\ [][Next]_vars

\* every awaited call returns and every continuation is run
Fairness ==
  /\ WF_vars(\E b \in batches : \E i \in DOMAIN b.items : \E p \in Estimates :
               executeOpportunityGate(b, i, p))
  /\ WF_vars(\E b \in batches : \E i \in DOMAIN b.items : \E ok \in BOOLEAN :
               executeOpportunityReturn(b, i, ok))
  /\ WF_vars(\E b \in batches : executionLoopSettle(b))

FairSpec == Spec /\ Fairness

\* the engine with generators whose analyze hooks return opportunities
NextGenerators == Callers \/ Cycles \/ Training \/ Generators

SpecGenerators == Init /\ [][NextGenerators]_vars

\* the engine with the leveraged-opportunity monitor
NextMonitor == Callers \/ Cycles \/ Training \/ Monitor

SpecMonitor == Init /\ [][NextMonitor]_vars

\* the engine, started once, with callers of the registry
NextRegistry ==
  \/ start
  \/ \E o \in OppIds : addOpportunity(o)
  \/ Cycles
  \/ Registry

SpecRegistry == Init /\ [][NextRegistry]_vars

\* the engine, started once, with training asked for by hand as well
NextTraining ==
  \/ start
  \/ \E o \in OppIds : addOpportunity(o)
  \/ Cycles
  \/ Training
  \/ trainModel

SpecTraining == Init /\ [][NextTraining]_vars

\* the training triggers with fits that resolve or throw; a fit that was
\* started settles, so the step that leaves the try statement is taken
NextFit == NextTraining \/ trainModelCatch

FairSpecFit ==
  /\ Init
  /\ [][NextFit]_vars
  /\ WF_vars(trainModelFinish \/ trainModelCatch)

\* the engine whose queue is never cleared by hand
NextConserve ==
  \/ start
  \/ stop
  \/ \E o \in OppIds : addOpportunity(o)
  \/ Cycles
  \/ Generators

SpecConserve == Init /\ [][NextConserve]_vars

\* a chain of one to MaxProviders providers with failover calls in progress
\* at once; a probe that was sent settles
InitProvider ==
  /\ InitSingletons
  /\ providers \in 1..MaxProviders
  /\ flashLoanAmountETH = Int2Num(100)
  /\ candidate = NoCandidate

NextProvider ==
  \/ \E c \in FailoverCalls : getProviderWithFailover(c)
  \/ \E c \in FailoverCalls : probeResolves(c)
  \/ \E c \in FailoverCalls : probeRejects(c)
  \/ \E c \in FailoverCalls : failoverDone(c)

FairSpecProvider ==
  /\ InitProvider
  /\ [][NextProvider]_vars
  /\ \A c \in FailoverCalls : WF_vars(probeResolves(c) \/ probeRejects(c))

\* the registry with callers that record outcomes for known and unknown ids
NextRecords ==
  \/ \E id \in StrategyIds : \E r \in TradeResults : recordOutcome(id, r)
  \/ \E r \in TradeResults : recordOutcomeUnknown(r)

SpecRecords == Init /\ [][NextRecords]_vars

\* the generators of an engine whose strategies are activated and
\* deactivated before and after start()
NextAnalysis ==
  \/ start
  \/ stop
  \/ Registry
  \/ Generators

SpecAnalysis == Init /\ [][NextAnalysis]_vars

\* the engine, started once, with an oracle and strategies that may reject
NextFaults ==
  \/ start
  \/ \E o \in OppIds : addOpportunity(o)
  \/ Cycles
  \/ Faults

SpecFaults == Init /\ [][NextFaults]_vars

FairSpecFaults == SpecFaults /\ Fairness

\* the engine, started once, while time passes
NextClock ==
  \/ start
  \/ \E o \in OppIds : addOpportunity(o)
  \/ Cycles
  \/ clockAdvance

SpecClock == Init /\ [][NextClock]_vars

\* the registry alone, with the callers of its public methods
NextCatalog ==
  \/ \E id \in StrategyIds : \E r \in TradeResults : recordOutcome(id, r)
  \/ Registry

SpecCatalog == Init /\ [][NextCatalog]_vars

\* the registry with settling executions as its only callers
NextOutcomes ==
  \E id \in StrategyIds : \E r \in TradeResults : recordOutcome(id, r)

SpecOutcomes == Init /\ [][NextOutcomes]_vars

\* the decision engine's performance history with its callers
NextPerformance ==
  \E t \in StrategyTypes : \E ok \in BOOLEAN : \E p \in {0, 2} :
    updatePerformance(t, ok, p)

SpecPerformance == Init /\ [][NextPerformance]_vars

\* the decision engine analysing an opportunity while outcomes of its
\* category are fed back, until the category's own success rate counts
InitDecision ==
  /\ InitSingletons
  /\ providers = MaxProviders
  /\ flashLoanAmountETH = Int2Num(100)
  /\ candidate \in Opportunities

NextDecision ==
  \/ \E now \in AnalysisTimes : \E hour \in Hours : analyzeOpportunity(now, hour)
  \/ \E ok \in BOOLEAN :
       /\ strategyPerformance[candidate.type].totalTrades < minReliabilityTrades
       /\ updatePerformance(candidate.type, ok, 0)

SpecDecision == InitDecision /\ [][NextDecision]_vars

\* the decision engine analysing any opportunity, those included whose
\* normalized profit was computed as NaN (as the builder's netProfit can be)
InitAccept ==
  /\ InitSingletons
  /\ providers = MaxProviders
  /\ flashLoanAmountETH = Int2Num(100)
  /\ candidate \in Opportunities
                    \cup {[o EXCEPT !.estimatedProfitUSD = NaN] : o \in Opportunities}

NextAccept ==
  \E now \in AnalysisTimes : \E hour \in Hours : analyzeOpportunity(now, hour)

SpecAccept == InitAccept /\ [][NextAccept]_vars

\* the leveraged-opportunity builder under any configured loan size
InitBuilder ==
  /\ InitSingletons
  /\ providers = MaxProviders
  /\ flashLoanAmountETH \in LoanAmounts
  /\ candidate = NoCandidate

NextBuilder ==
  \E low \in Prices \ {Infinity} : \E high \in Prices : \E now \in ScanTimes :
    /\ Less(low, high)
    /\ scanForOpportunities(low, high, now)

SpecBuilder == InitBuilder /\ [][NextBuilder]_vars

(***************************************************************************)
(* Properties                                                              *)
(***************************************************************************)
\* C1: every opportunity is handed to an execution capability (a strategy's
\* execute or the executor's executeFlashLoan) at most once over the run
C1_ExecutedAtMostOnce ==
  \A o \in OppIds : hist.stratExec[o] + hist.flashExec[o] <= 1

\* C2: no execution capability is invoked for an opportunity on an estimate
\* below config.ai.confidenceThreshold, on either dispatch path
C2_ConfidenceGate == hist.lowExec = {}

\* C3: the queue never holds more than maxQueueSize items
C3_QueueBounded == Len(opportunityQueue) <= maxQueueSize

\* C4: the strategy invoked for an opportunity is enabled and is the
\* highest-priority, earliest-registered enabled strategy of its category
C4_SelectsEnabledTop == hist.selDisabled = {} /\ hist.selNotTop = {}

\* C5: once every batch has settled, the decision engine's total of each
\* category equals the trades recorded in the catalog for that category,
\* so both grew by the number of executed opportunities
C5_FeedbackToBoth ==
  batches = {} =>
    \A t \in StrategyTypes :
      strategyPerformance[t].totalTrades = SumTrades(strategies, t, 1)

\* C6: the live cycle-runner timers never exceed numWorkers x loopsPerCore
\* and no runner dequeues while the engine is stopped
C6_RunnersBounded ==
  /\ Cardinality(LiveLoops) <= totalLoops
  /\ ~hist.deqStopped

\* C7: each cycle-runner has at most one batch in flight, so the batches in
\* flight never exceed the number of cycle-runners
C7_OneBatchPerRunner ==
  /\ \A b1, b2 \in batches : b1.loop = b2.loop => b1 = b2
  /\ Cardinality(batches) <= totalLoops

\* C8: every opportunity in flight when stop() is called eventually has its
\* batch counted in tradeCount, and by then its outcome is recorded in the
\* registry if a strategy executed it
C8_InFlightCompletes ==
  \A o \in OppIds :
    (o \in hist.atStop) ~>
      (hist.counted[o] > 0 /\ (hist.stratExec[o] > 0 => hist.recorded[o] > 0))

\* an opportunity that was in flight at a stop() has been executed by a
\* strategy, recorded and counted while the engine is stopped
C8_Witness ==
  \E o \in hist.atStop :
    ~isRunning /\ hist.counted[o] > 0 /\ hist.stratExec[o] > 0
      /\ hist.recorded[o] > 0

\* C9: tradeCount never decreases, and a stop() or start() call leaves it
\* as it was
C9_TradeCountMonotone ==
  [][/\ tradeCount' >= tradeCount
     /\ (lastOp' \in {"start", "stop"} => tradeCount' = tradeCount)]_vars

\* the engine was restarted after a stop and still reports earlier trades
C9_Witness == lastOp = "start" /\ generation = 2 /\ isRunning /\ tradeCount > 0

\* C10: a start() call on a running engine changes no timer, no queue item,
\* not the trade count and not the running flag
C10_StartNoOp ==
  [][(isRunning /\ lastOp' = "start") =>
       UNCHANGED <<isRunning, tradeCount, opportunityQueue, executionLoops,
                   timers, generation, batches, genPending, scans>>]_vars

\* start() was called on an engine that was started once and has since
\* executed trades: the call found the engine running
C10_Witness == lastOp = "start" /\ generation = 1 /\ tradeCount > 0

\* C11: whatever the order in which settling executions record their
\* outcomes, each record's trade count is the number of outcomes recorded
\* for it, its profitable count the number of successful ones, its success
\* rate profitable/total and its average latency the mean of the durations
C11_NoLostUpdate ==
  \A id \in StrategyIds :
    LET s == strategies[id]
        t == hist.outcomes[id]
    IN  /\ s.totalTrades = t.n
        /\ s.profitabletrades = t.wins
        /\ t.n > 0 => /\ s.successRate = Num(t.wins, t.n)
                      /\ s.averageExecutionTime = Num(t.time, t.n)

\* three outcomes were recorded for one strategy, some successful and some
\* not, with durations whose mean is not a whole number
C11_Witness ==
  \E id \in StrategyIds :
    /\ hist.outcomes[id].n = 3
    /\ hist.outcomes[id].wins \in {1, 2}
    /\ strategies[id].averageExecutionTime[2] > 1

\* the counters and the success rate of every record
Counters(reg) ==
  [i \in DOMAIN reg |->
     <<reg[i].totalTrades, reg[i].profitabletrades, reg[i].totalProfitUSD,
       reg[i].successRate>>]

\* C12: two outcomes for different strategies give the same trade counts,
\* profitable counts, cumulative profits and success rates in either order
C12_OutcomesCommute ==
  \A i, j \in StrategyIds : \A r1, r2 \in TradeResults :
    i < j =>
      Counters(updateStrategyPerformance(
                 updateStrategyPerformance(strategies, i, r1), j, r2))
        = Counters(updateStrategyPerformance(
                     updateStrategyPerformance(strategies, j, r2), i, r1))

\* outcomes have been recorded for two different strategies, one of them
\* with a success and a failure
C12_Witness ==
  \E i, j \in StrategyIds :
    /\ i # j
    /\ strategies[i].totalTrades = 2 /\ strategies[i].profitabletrades = 1
    /\ strategies[j].totalTrades = 1

\* C13: each category's window holds at most recentWindow entries, they are
\* the most recent outcomes in the order they were recorded, and the success
\* rate is the number of successes in the window over the window's length
C13_RollingWindow ==
  \A t \in StrategyTypes :
    LET perf == strategyPerformance[t]
        log == hist.perfLog[t]
        n == Len(log)
        w == perf.recentPerformance
    IN  /\ Len(w) <= recentWindow
        /\ w = SubSeq(log, n - Min(n, recentWindow) + 1, n)
        /\ n > 0 => perf.successRate = Num(Successes(w), Len(w))

\* a category took more outcomes than the window holds: the oldest one, a
\* success, was evicted and a failure is in the window
C13_Witness ==
  \E t \in StrategyTypes :
    /\ Len(hist.perfLog[t]) > recentWindow
    /\ hist.perfLog[t][1] = 1
    /\ Successes(strategyPerformance[t].recentPerformance) \in 1..(recentWindow - 1)

\* C14: every opportunity stored in the builder's list has a net profit
\* greater than 0
C14_NetProfitPositive ==
  \A i \in DOMAIN opportunities :
    Less(<<0, 1>>, opportunities[i].estimatedProfit)

\* C15: the risk score, profit probability, timing score and blended
\* confidence computed for an opportunity are defined numbers in [0, 1]
C15_ScoresInUnit ==
  decision.made =>
    /\ InUnit(decision.riskScore)
    /\ InUnit(decision.profitProbability)
    /\ InUnit(decision.timingScore)
    /\ InUnit(decision.confidence)

\* the confidences and risk scores the accept rule is tried on
Scores ==
  {<<0, 1>>, <<1, 2>>, <<51, 100>>, <<59, 100>>, <<6, 10>>, <<7, 10>>,
   <<71, 100>>, <<74, 100>>, <<75, 100>>, <<84, 100>>, <<85, 100>>, <<1, 1>>}

\* C16: for the analysed opportunity, its computed risk score and every
\* risk score of Scores, an accept at a confidence c1 is an accept at every
\* confidence c2 >= c1
C16_AcceptMonotone ==
  decision.made =>
    \A r \in Scores \cup {decision.riskScore} : \A c1, c2 \in Scores :
      (LessEq(c1, c2) /\ shouldExecuteTrade(c1, r, candidate))
        => shouldExecuteTrade(c2, r, candidate)

\* an opportunity was analysed at a risk score above 0.5 and accepted,
\* and a lower confidence would have been rejected at the same risk score
C16_Witness ==
  /\ decision.made
  /\ decision.shouldExecute
  /\ Less(<<1, 2>>, decision.riskScore)
  /\ \E c1 \in Scores :
       /\ Less(c1, decision.confidence)
       /\ ~Less(c1, <<6, 10>>)
       /\ ~shouldExecuteTrade(c1, decision.riskScore, candidate)

\* C17: a record is in the active set exactly when its enabled flag is set,
\* and the active count of the statistics is the number of enabled records
C17_ActiveIffEnabled ==
  /\ \A id \in StrategyIds : (id \in activeStrategies) <=> strategies[id].enabled
  /\ getStrategyStats(strategies, activeStrategies).active
       = Cardinality({id \in StrategyIds : strategies[id].enabled})

\* the statistics of every record of the catalog
Statistics(reg) ==
  [i \in DOMAIN reg |->
     <<reg[i].totalTrades, reg[i].profitabletrades, reg[i].totalProfitUSD,
       reg[i].successRate, reg[i].averageExecutionTime>>]

\* C18: no step removes a record from the catalog, and a deactivation
\* leaves the trade count, profitable count, cumulative profit, success
\* rate and average latency of every record as they were
C18_DeactivateKeepsRecord ==
  [][/\ DOMAIN strategies' = DOMAIN strategies
     /\ \A id \in DOMAIN strategies :
          /\ strategies'[id].type = strategies[id].type
          /\ strategies'[id].priority = strategies[id].priority
     /\ lastOp' = "deactivate" => Statistics(strategies') = Statistics(strategies)
    ]_vars

\* the one disabled record of the catalog has just been deactivated with
\* all recorded trades, a success among them, and still has them
C18_Witness ==
  /\ lastOp = "deactivate"
  /\ \E id \in StrategyIds :
       /\ ~strategies[id].enabled
       /\ id \notin activeStrategies
       /\ strategies[id].totalTrades = MaxOutcomes
       /\ strategies[id].profitabletrades > 0
       /\ strategies[id].totalProfitUSD > 0
       /\ strategies[id].totalTrades = hist.outcomes[id].n
       /\ \A other \in StrategyIds \ {id} : strategies[other].enabled

\* C19: an opportunity offered while the queue is at capacity leaves the
\* queue as it was
C19_FullQueueDrops ==
  [][(created' # created /\ Len(opportunityQueue) >= maxQueueSize)
       => opportunityQueue' = opportunityQueue]_vars

\* an opportunity has been offered to a full queue, the call has returned
\* and the queue holds the opportunities offered before it
C19_Witness ==
  /\ hist.dropped > 0
  /\ Len(opportunityQueue) = maxQueueSize
  /\ Cardinality(created) = maxQueueSize + hist.dropped
  /\ \A i \in DOMAIN opportunityQueue : opportunityQueue[i] \in created

\* C20: one of the numbers getMetrics reports that the engine writes after
\* construction is the number of opportunities offered while the queue
\* was full
C20_DropsCounted ==
  LET m == getMetrics
  IN  hist.dropped \in {m.tradeCount, m.strategiesPerSecond, m.queueSize,
                        m.aiMetrics.trainingDataSize}

\* C26: whenever the decisions-per-second metric is written, its value is
\* the number of outcomes produced since the previous write, the batch that
\* is being counted included
C26_RollingSecond ==
  [][lastSecondTimestamp' # lastSecondTimestamp
       => strategiesPerSecond' = hist.sinceReset + (tradeCount' - tradeCount)]_vars

\* C30: an opportunity whose expiry time had passed when a cycle-runner
\* took it from the queue is never handed to a strategy's execute
C30_ExpiredNeverExecuted ==
  \A o \in hist.deqExpired : hist.stratExec[o] = 0

\* the opportunities whose oracle call or strategy call has rejected
Threw == hist.oracleThrew \cup hist.execThrew

\* C21: a rejection of the oracle or of a strategy's execute turns the one
\* item it belongs to into a failed result and leaves every other item,
\* the queue and the cycle-runners as they were; every opportunity in a
\* batch, whether or not an item of the batch was rejected, is eventually
\* counted among the settled results
C21_FaultContained ==
  /\ [][Threw' # Threw =>
          /\ isRunning' = isRunning
          /\ timers' = timers
          /\ opportunityQueue' = opportunityQueue
          /\ Cardinality(batches') = Cardinality(batches)
          /\ \A b \in batches : \E c \in batches' :
               /\ c.loop = b.loop
               /\ DOMAIN c.items = DOMAIN b.items
               /\ \A i \in DOMAIN b.items :
                    \/ c.items[i] = b.items[i]
                    \/ /\ b.items[i].opp \in Threw' \ Threw
                       /\ c.items[i].opp = b.items[i].opp
                       /\ c.items[i].st = "rejected"
                       /\ ~c.items[i].success]_vars
  /\ \A o \in OppIds : (o \in InFlight) ~> (hist.counted[o] > 0)

\* after a batch with a rejected oracle call has settled, a later batch
\* holds an item whose execute was rejected next to an item that was
\* executed with success
C21_Witness ==
  /\ \E o \in hist.oracleThrew : hist.counted[o] > 0
  /\ \E b \in batches : \E i, j \in DOMAIN b.items :
       /\ b.items[i].opp \in hist.execThrew
       /\ b.items[i].st = "rejected"
       /\ b.items[j].st = "executed"
       /\ b.items[j].success

\* C29: when a strategy's execute rejects, the selected strategy's count
\* of trades grows by one and its success rate is the profitable trades
\* over that count
C29_ThrowIsRecorded ==
  [][\A b \in batches : \A i \in DOMAIN b.items :
       (b.items[i].st = "executing" /\ b.items[i].opp \in hist'.execThrew
          /\ b.items[i].opp \notin hist.execThrew)
       => LET id == b.items[i].strat
          IN  /\ strategies'[id].totalTrades = strategies[id].totalTrades + 1
              /\ strategies'[id].successRate
                   = Num(strategies'[id].profitabletrades,
                         strategies'[id].totalTrades)]_vars

\* the opportunities of a batch, in the order of its items
BatchOpps(b) == [i \in DOMAIN b.items |-> b.items[i].opp]

\* how often o is in the queue, in a batch in flight or in a settled batch
Holdings(o) ==
  Cardinality({i \in DOMAIN opportunityQueue : opportunityQueue[i] = o})
    + Cardinality({bi \in {<<b, i>> : b \in batches, i \in 1..batchSize} :
                     bi[2] \in DOMAIN bi[1].items /\ bi[1].items[bi[2]].opp = o})
    + hist.counted[o]

\* C22: a step that hands a batch to a cycle-runner takes at most batchSize
\* items off the head of the queue, in queue order, in that one step, and
\* every opportunity is in the queue or in one batch, never in two
C22_AtomicFifoBatch ==
  [][/\ \A b \in batches' \ batches :
          (\A a \in batches : BatchOpps(a) # BatchOpps(b) \/ a.loop # b.loop)
            => /\ Len(b.items) <= batchSize
               /\ BatchOpps(b) \o opportunityQueue' = opportunityQueue
     /\ \A o \in OppIds : Holdings(o)' <= 1]_vars

\* two cycle-runners hold batches at the same time, one of them a full
\* batch taken from a queue that held more than a batch
C22_Witness ==
  \E b1, b2 \in batches :
    /\ b1.loop # b2.loop
    /\ Len(b1.items) = batchSize
    /\ \A i \in DOMAIN b1.items : b1.items[i].st = "predict"
    /\ \A i \in DOMAIN b2.items : b2.items[i].st = "predict"
    /\ \A i \in DOMAIN b1.items : \A j \in DOMAIN b2.items :
         b1.items[i].opp < b2.items[j].opp

\* C23: every opportunity stored in the builder's list has a normalized
\* profit of at least the minimum profit threshold, a confidence of at least
\* the confidence threshold and a risk score of at most 0.7, and is stored
\* only while the leveraged-trade flag is on
C23_StoredPassedGate ==
  \A i \in DOMAIN opportunities :
    /\ LessEq(Int2Num(minProfitThresholdUSD), opportunities[i].estimatedProfitUSD)
    /\ LessEq(Num(confidenceThreshold, 100), opportunities[i].confidence)
    /\ LessEq(opportunities[i].riskScore, <<7, 10>>)
    /\ flashAvailable

\* C24: for every category, getStrategiesByType returns the records of that
\* category, each once, in descending order of priority
C24_ByCategorySorted ==
  \A type \in StrategyTypes :
    LET found == getStrategiesByType(strategies, type)
    IN  /\ {found[i] : i \in DOMAIN found}
             = {id \in DOMAIN strategies : strategies[id].type = type}
        /\ \A i, j \in DOMAIN found : i # j => found[i] # found[j]
        /\ \A i, j \in DOMAIN found :
             i < j => strategies[found[i]].priority >= strategies[found[j]].priority

\* C25: whatever identifiers the records were given, the top performers for
\* a limit are at most limit records, each with at least one trade, in
\* descending order of success rate times cumulative profit, and records of
\* equal score are in ascending order of identifier
C25_TopPerformersOrdered ==
  \A limit \in 0..MaxLimit : \A uuid \in Uuids :
    LET top == getTopPerformingStrategies(strategies, limit)
    IN  /\ Len(top) <= limit
        /\ \A i \in DOMAIN top : strategies[top[i]].totalTrades >= 1
        /\ \A i, j \in DOMAIN top :
             i < j => \/ Less(Score(strategies, top[j]), Score(strategies, top[i]))
                      \/ /\ Score(strategies, top[j]) = Score(strategies, top[i])
                         /\ uuid[top[i]] < uuid[top[j]]

\* C27: stop leaves the engine stopped, and a stop of an engine that is
\* already stopped changes no variable of the program, so that a second stop
\* leaves the state the first one left
C27_StopIdempotent ==
  [][lastOp' = "stop" =>
       /\ ~isRunning'
       /\ executionLoops' = {}
       /\ ~isRunning =>
            UNCHANGED <<isRunning, tradeCount, opportunityQueue, executionLoops,
                        timers, generation, batches, genPending, scans,
                        strategies, activeStrategies, strategyPerformance,
                        trainingDataSize, isTraining, flashAvailable, created,
                        candidate, decision, opportunities, flashLoanAmountETH,
                        clock, strategiesPerSecond, lastSecondTimestamp,
                        hist>>]_vars

\* stop has been called on an engine that had been started, had counted
\* trades, was stopped and had since run its surviving timers to their end
C27_Witness ==
  /\ lastOp = "stop"
  /\ ~isRunning
  /\ generation >= 1
  /\ tradeCount > 0
  /\ timers = {}

\* C28: the verdict of shouldExecuteTrade for an analysed opportunity is the
\* conjunction of: confidence >= 0.60; not (risk > 0.70 and confidence <
\* 0.85); not (risk > 0.50 and confidence < 0.75); normalized profit >= 1.0;
\* normalized profit minus normalized cost >= 0.5
C28_AcceptIsConjunction ==
  decision.made =>
    (decision.shouldExecute <=>
       /\ LessEq(Num(6, 10), decision.confidence)
       /\ ~(Less(<<7, 10>>, decision.riskScore)
              /\ Less(decision.confidence, <<85, 100>>))
       /\ ~(Less(<<5, 10>>, decision.riskScore)
              /\ Less(decision.confidence, <<75, 100>>))
       /\ LessEq(<<1, 1>>, candidate.estimatedProfitUSD)
       /\ LessEq(<<1, 2>>, Minus(candidate.estimatedProfitUSD,
                                 Times(candidate.gasEstimate, Int2Num(50)))))

\* C31: an opportunity whose estimated profit amount is not positive is
\* never handed to a strategy's execute
C31_MalformedNeverExecuted ==
  \A o \in OppIds : OppEstimatedProfit(o) <= 0 => hist.stratExec[o] = 0

\* C32: a step that creates generator timers creates them for strategies
\* that are enabled at that step only, so that no generator calls the
\* analysis hook of a strategy that was disabled when the engine started
C32_GeneratorsOfEnabledOnly ==
  [][\A t \in timers' \ timers :
       t.kind = "gen" => strategies[t.idx].enabled]_vars

C34_EventPerExecution ==
  \A o \in OppIds :
    /\ hist.stratExec[o] = 0 => hist.emitted[o] = 0
    /\ (hist.stratExec[o] > 0 /\ hist.counted[o] > 0) => hist.emitted[o] = 1

\* C35: when an opportunity whose category has no strategy leaves the
\* estimate, its outcome is a rejected one with success = false, no
\* strategy's execute is called for it and no strategy record changes
C35_NoStrategyRejects ==
  [][\A b \in batches : \A c \in batches' : \A i \in DOMAIN b.items :
       (/\ c.loop = b.loop
        /\ BatchOpps(c) = BatchOpps(b)
        /\ getStrategiesByType(strategies, OppType(b.items[i].opp)) = <<>>
        /\ b.items[i].st = "predict"
        /\ c.items[i].st # "predict")
         => /\ c.items[i].st = "rejected"
            /\ ~c.items[i].success
            /\ hist'.stratExec = hist.stratExec
            /\ strategies' = strategies]_vars

\* an opportunity of a category without strategies has been rejected and
\* counted, without an execution or a recorded outcome, while another
\* opportunity was executed
C35_Witness ==
  \E o, other \in OppIds :
    /\ getStrategiesByType(strategies, OppType(o)) = <<>>
    /\ hist.counted[o] = 1
    /\ hist.stratExec[o] = 0
    /\ hist.recorded[o] = 0
    /\ hist.recorded[other] = 1

\* the steps borrow, swap on the low-price venue, swap on the high-price
\* venue, repay, borrowing loan and repaying loan plus the fee of 0.09%
StepSequence(steps, loan) ==
  /\ Len(steps) = 4
  /\ [i \in 1..4 |-> steps[i].action] = <<"BORROW", "SWAP", "SWAP", "REPAY">>
  /\ steps[2].dex = "buySource"
  /\ steps[3].dex = "sellSource"
  /\ steps[1].amountIn = loan
  /\ steps[4].amountIn = Plus(loan, Times(loan, <<9, 10000>>))

\* C36: every request handed to executeFlashLoan carries the four steps
\* borrow, swap low, swap high, repay with the loan size borrowed and the
\* loan size plus the fee repaid
C36_HandedWithSteps ==
  \A steps \in hist.handed : StepSequence(steps, flashLoanAmountETH)

\* the opportunities accepted into the queue so far
Accepted == Cardinality(created) - hist.dropped

\* the opportunities in batches in flight
InFlightCount ==
  Cardinality({bi \in {<<b, i>> : b \in batches, i \in 1..MaxOpps} :
                 bi[2] \in DOMAIN bi[1].items})

\* C37: the opportunities accepted into the queue are those in the queue,
\* those in batches in flight and those counted in tradeCount; and a step
\* that finds the queue empty, creates no opportunity and counts no trade
\* leaves the queue empty and the other two numbers as they were
C37_Conserved ==
  [][/\ Accepted' = Len(opportunityQueue') + InFlightCount' + tradeCount'
     /\ (opportunityQueue = <<>> /\ created' = created /\ tradeCount' = tradeCount)
          => /\ opportunityQueue' = <<>>
             /\ InFlightCount' = InFlightCount
             /\ Accepted' = Accepted]_vars

\* accepted opportunities are at once waiting in the queue, in a batch in
\* flight and counted, in an engine that was stopped and started again
C37_Witness ==
  /\ Len(opportunityQueue) > 0
  /\ InFlightCount > 0
  /\ tradeCount > 0
  /\ generation = 2

\* C38: after every step each record has 0 <= profitable trades <= total
\* trades and, with a trade recorded, a success rate of profitable / total;
\* no step lowers a record's total, and an outcome recorded for an unknown
\* id changes no record
C38_CountersSound ==
  [][/\ \A id \in DOMAIN strategies' :
          LET s == strategies'[id]
          IN  /\ 0 <= s.profitabletrades
              /\ s.profitabletrades <= s.totalTrades
              /\ s.totalTrades > 0
                   => s.successRate = Num(s.profitabletrades, s.totalTrades)
              /\ s.totalTrades >= strategies[id].totalTrades
     /\ lastOp' = "unknown" => strategies' = strategies]_vars

\* an outcome for an unknown id was recorded on a registry that holds a
\* record with a success and a failure and a record with failures only
C38_Witness ==
  /\ lastOp = "unknown"
  /\ \E i, j \in StrategyIds :
       /\ strategies[i].totalTrades = 2 /\ strategies[i].profitabletrades = 1
       /\ strategies[j].totalTrades = 1 /\ strategies[j].profitabletrades = 0

\* C39: a training run that has set isTraining clears it again, whether the
\* fit resolves or throws, and the flag is set in no state in which no run is
\* in progress, so that a later trigger finds it clear
C39_TrainingEnds ==
  /\ isTraining ~> ~isTraining
  /\ [](hist.fits = 0 => ~isTraining)

\* a run has ended in the catch block with the flag clear and with the
\* samples a later trainModel call asks for
C39_Witness ==
  /\ lastOp = "catch"
  /\ ~isTraining
  /\ hist.fits = 0
  /\ trainingDataSize >= trainStep

\* the probes a call has sent: those that settled and the one it awaits
ProbesSent(call) == Len(call.probed) + (IF call.pc = "probing" THEN 1 ELSE 0)

\* C40: a failover call sends at most as many probes as the chain has
\* providers and ends; it returns a provider only when its last probe was of
\* that provider and passed, it throws exactly when as many probes as there
\* are providers have failed, and the chain's current index stays within
\* 0 .. providers - 1, with several calls in progress at once
C40_FailoverBounded ==
  /\ [](/\ currentProviderIndex \in 0..(providers - 1)
        /\ \A c \in FailoverCalls :
             LET call == failovers[c]
                 allFailed == /\ Len(call.probed) = providers
                              /\ \A k \in DOMAIN call.probed : ~call.probed[k][2]
             IN  /\ ProbesSent(call) <= providers
                 /\ call.pc = "returned" =>
                      /\ call.probed # <<>>
                      /\ call.probed[Len(call.probed)] = <<call.provider, TRUE>>
                      /\ call.provider \in 0..(providers - 1)
                 /\ call.pc = "thrown" <=> allFailed)
  /\ \A c \in FailoverCalls :
       (failovers[c].pc = "probing") ~> (failovers[c].pc # "probing")

\* on a chain of MaxProviders providers one call has thrown after every
\* provider failed its probe, while another call, started meanwhile, has
\* returned a provider after a failed probe of its own
C40_Witness ==
  /\ providers = MaxProviders
  /\ \E c, d \in FailoverCalls :
       /\ failovers[c].pc = "thrown"
       /\ failovers[d].pc = "returned"
       /\ Len(failovers[d].probed) > 1
       /\ failovers[d].probed[1][1] # 0

====
